---- MODULE Spec2Model ----
(***************************************************************************)
(* Financial-statement analysis (Balance Sheet, Profit and Loss, Cash      *)
(* Flow): period-label normalisation, file decoding, table loading, metric *)
(* resolution, ratio and growth computation, and the upload flow.          *)
(*                                                                         *)
(* Python str values are TLA+ strings; the character at position i of s is *)
(* SubSeq(s, i, i).  A Python call that can raise is modelled by a result  *)
(* record: [ok |-> TRUE, val |-> v] or [ok |-> FALSE, exc |-> name].       *)
(***************************************************************************)
EXTENDS Integers, Sequences, FiniteSets, TLC

VARIABLES
    pc,             \* position of the run under study
    padYear,        \* whether the platform's strftime zero-pads %Y to 4 digits
    token,          \* raw period token handed to a normaliser
    label,          \* what the normaliser returned (a result record)
    df,             \* transposed table handed to an analyser
    found_metrics,  \* the analyser's metric resolution (ordered dict)
    analysis_df,    \* the analysis table the analyser returned
    uploaded_file,  \* the file handed to a reader, a loader or the upload flow
    file_extension, \* the extension the file is declared with
    attempts,       \* the reads made of the file's content, in order
    result          \* what the reader, the loader or the upload flow produced

normVars == <<padYear, token, label>>

anaVars == <<df, found_metrics, analysis_df>>

fileVars == <<uploaded_file, file_extension, attempts, result>>

vars == <<pc, normVars, anaVars, fileVars>>

\* no match / no text (among strings)
Null == "<none>"

\* Python None (among records)
None == [k |-> "none"]

(***************************************************************************)
(* Python built-ins used by the source                                     *)
(***************************************************************************)
Ok(v) == [ok |-> TRUE, val |-> v]

Raise(e) == [ok |-> FALSE, exc |-> e]

Ch(s, i) == SubSeq(s, i, i)

DigitChars == {"0", "1", "2", "3", "4", "5", "6", "7", "8", "9"}

WhitespaceChars == {" ", "\t", "\n", "\r"}

DigitVal(c) ==
    CASE c = "0" -> 0 [] c = "1" -> 1 [] c = "2" -> 2 [] c = "3" -> 3
      [] c = "4" -> 4 [] c = "5" -> 5 [] c = "6" -> 6 [] c = "7" -> 7
      [] c = "8" -> 8 [] OTHER -> 9

DigitChar(d) == Ch("0123456789", d + 1)

\* s[a:b] for 0 <= a, with b clipped to len(s)  (Python slice, 0-based, half-open)
Slice(s, a, b) ==
    LET e == IF b > Len(s) THEN Len(s) ELSE b
    IN  IF a >= e THEN "" ELSE SubSeq(s, a + 1, e)

IsAllDigits(s) == Len(s) > 0 /\ \A i \in 1..Len(s) : Ch(s, i) \in DigitChars

\* str.strip(): drop leading and trailing whitespace
py_strip(s) ==
    IF \A i \in 1..Len(s) : Ch(s, i) \in WhitespaceChars THEN ""
    ELSE SubSeq(s,
                CHOOSE i \in 1..Len(s) :
                    Ch(s, i) \notin WhitespaceChars /\ \A j \in 1..(i - 1) : Ch(s, j) \in WhitespaceChars,
                CHOOSE i \in 1..Len(s) :
                    Ch(s, i) \notin WhitespaceChars /\ \A j \in (i + 1)..Len(s) : Ch(s, j) \in WhitespaceChars)

RECURSIVE DigitsValue(_)
\* value of a run of digits and underscores, underscores skipped
DigitsValue(s) ==
    IF s = "" THEN 0
    ELSE LET c == Ch(s, Len(s))
             rest == SubSeq(s, 1, Len(s) - 1)
         IN  IF c = "_" THEN DigitsValue(rest)
             ELSE DigitsValue(rest) * 10 + DigitVal(c)

\* int(str): surrounding whitespace ignored, optional sign, digits with single
\* underscores between digits; anything else is a ValueError
py_int_digits(negative, body) ==
    IF /\ body # ""
       /\ Ch(body, 1) \in DigitChars
       /\ Ch(body, Len(body)) \in DigitChars
       /\ \A i \in 1..Len(body) : Ch(body, i) \in DigitChars \cup {"_"}
       /\ \A i \in 1..(Len(body) - 1) : ~(Ch(body, i) = "_" /\ Ch(body, i + 1) = "_")
    THEN Ok(IF negative THEN 0 - DigitsValue(body) ELSE DigitsValue(body))
    ELSE Raise("ValueError")

py_int_stripped(t) ==
    IF t # "" /\ Ch(t, 1) \in {"+", "-"}
    THEN py_int_digits(Ch(t, 1) = "-", SubSeq(t, 2, Len(t)))
    ELSE py_int_digits(FALSE, t)

py_int(s) == py_int_stripped(py_strip(s))

RECURSIVE py_str_nat(_)
\* str(n) for n >= 0
py_str_nat(n) == IF n < 10 THEN DigitChar(n) ELSE py_str_nat(n \div 10) \o DigitChar(n % 10)

MINYEAR == 1

MAXYEAR == 9999

\* datetime(year, month, 1): ValueError outside MINYEAR..MAXYEAR or 1..12
datetime(year, month) ==
    IF year < MINYEAR \/ year > MAXYEAR \/ month < 1 \/ month > 12
    THEN Raise("ValueError")
    ELSE Ok([year |-> year, month |-> month])

MonthAbbr ==
    <<"Jan", "Feb", "Mar", "Apr", "May", "Jun", "Jul", "Aug", "Sep", "Oct", "Nov", "Dec">>

\* %Y: the C library decides whether a year below 1000 is zero-padded to 4 digits
FormatYear(year, pad) ==
    LET s == py_str_nat(year)
    IN  IF pad THEN SubSeq("0000", 1, 4 - Len(s)) \o s ELSE s

\* d.strftime('%b-%Y')
strftime_b_Y(d, pad) == MonthAbbr[d.month] \o "-" \o FormatYear(d.year, pad)

\* re.search(r'\d{4}', s).group(): the leftmost 4 consecutive digits, or no match
FourAt(s, i) == SubSeq(s, i, i + 3)

re_search_d4(s) ==
    IF \A i \in 1..(Len(s) - 3) : ~IsAllDigits(FourAt(s, i)) THEN Null
    ELSE FourAt(s, CHOOSE i \in 1..(Len(s) - 3) :
                      IsAllDigits(FourAt(s, i)) /\ \A k \in 1..(i - 1) : ~IsAllDigits(FourAt(s, k)))

\* .strftime('%b-%Y') of the date, or the failure of datetime(...)
DateLabel(d, pad) == IF ~d.ok THEN d ELSE Ok(strftime_b_Y(d.val, pad))

\* datetime(year, month, 1).strftime('%b-%Y'), the first failure raised
YearMonthOf(year, month, pad) ==
    IF ~year.ok THEN year
    ELSE IF ~month.ok THEN month
    ELSE DateLabel(datetime(year.val, month.val), pad)

\* int(a), int(b), datetime(..., 1).strftime('%b-%Y'), the first failure raised
YearMonthLabel(yearText, monthText, pad) == YearMonthOf(py_int(yearText), py_int(monthText), pad)

(***************************************************************************)
(* Period label normalisers                                                *)
(***************************************************************************)
\* the year found in the text, else the text
year_match_label(year_match, s) == IF year_match # Null THEN Ok("FY-" \o year_match) ELSE Ok(s)

\* except Exception: the fallback value is returned
Except(r, fallback) == IF r.ok THEN r ELSE Ok(fallback)

\* balance_sheet.parse_year, the body of its try block, once the text is stripped
bs_parse_year_stripped(s, pad) ==
    IF Len(s) = 6 THEN YearMonthLabel(Slice(s, 0, 4), Slice(s, 4, Len(s)), pad)
    ELSE IF Len(s) = 4 THEN Ok("FY-" \o s)
    ELSE IF Len(s) = 8 THEN YearMonthLabel(Slice(s, 0, 4), Slice(s, 4, 6), pad)
    ELSE year_match_label(re_search_d4(s), s)

\* balance_sheet.parse_year, the body of its try block, on a str argument
bs_parse_year_try(year_str, pad) == bs_parse_year_stripped(py_strip(year_str), pad)

\* balance_sheet.parse_year: except Exception -> str(year_str), year_str being
\* the stripped text by then
bs_parse_year(year_str, pad) == Except(bs_parse_year_try(year_str, pad), py_strip(year_str))

\* profit_loss.parse_year, the body of its try block, once the text is stripped
pl_parse_year_stripped(s, pad) ==
    IF Len(s) = 6 THEN YearMonthLabel(Slice(s, 0, 4), Slice(s, 4, Len(s)), pad)
    ELSE IF Len(s) = 4 THEN Ok("FY-" \o s)
    ELSE IF Len(s) = 8 THEN YearMonthLabel(Slice(s, 0, 4), Slice(s, 4, 6), pad)
    ELSE year_match_label(re_search_d4(s), s)

\* profit_loss.parse_year, the body of its try block, on a str argument
pl_parse_year_try(year_str, pad) == pl_parse_year_stripped(py_strip(year_str), pad)

\* profit_loss.parse_year
pl_parse_year(year_str, pad) == Except(pl_parse_year_try(year_str, pad), py_strip(year_str))

\* mutant: the month read one character too late
utils_parse_year_try_late(year_str, pad) ==
    YearMonthLabel(Slice(year_str, 0, 4), Slice(year_str, 5, Len(year_str)), pad)

\* utils.parse_year, the body of its try block
utils_parse_year_try(year_str, pad) ==
    YearMonthLabel(Slice(year_str, 0, 4), Slice(year_str, 4, Len(year_str)), pad)

\* mutant: no except clause
utils_parse_year_unguarded(year_str, pad) == utils_parse_year_try(year_str, pad)

\* utils.parse_year: except Exception -> year_str
utils_parse_year(year_str, pad) == Except(utils_parse_year_try(year_str, pad), year_str)

(***************************************************************************)
(* float64 values of an analysis table.  Table cells are integers here, so *)
(* every finite result is a rational, kept exact (rounding is not          *)
(* modelled); division follows IEEE 754: x/0 is +-inf, 0/0 is NaN.         *)
(***************************************************************************)
NaN == [k |-> "nan"]

PosInf == [k |-> "inf"]

NegInf == [k |-> "-inf"]

Abs(n) == IF n < 0 THEN 0 - n ELSE n

RECURSIVE Gcd(_, _)
Gcd(a, b) == IF b = 0 THEN a ELSE Gcd(b, a % b)

\* the rational n/d (d # 0) in lowest terms with a positive denominator
Rat(n, d) ==
    LET g == Gcd(Abs(n), Abs(d))
        sg == IF d < 0 THEN 0 - 1 ELSE 1
    IN  [k |-> "num", n |-> (sg * n) \div g, d |-> (sg * d) \div g]

Float(n) == Rat(n, 1)

IsFinite(x) == x.k = "num"

IsInf(x) == x.k \in {"inf", "-inf"}

Sign(x) ==
    IF x.k = "inf" THEN 1 ELSE IF x.k = "-inf" THEN 0 - 1
    ELSE IF x.n > 0 THEN 1 ELSE IF x.n < 0 THEN 0 - 1 ELSE 0

\* x / y
FDiv(x, y) ==
    IF x = NaN \/ y = NaN THEN NaN
    ELSE IF IsInf(x) /\ IsInf(y) THEN NaN
    ELSE IF IsInf(x) THEN (IF Sign(x) * (IF Sign(y) < 0 THEN 0 - 1 ELSE 1) > 0 THEN PosInf ELSE NegInf)
    ELSE IF IsInf(y) THEN Float(0)
    ELSE IF y.n = 0 THEN (IF x.n = 0 THEN NaN ELSE IF x.n > 0 THEN PosInf ELSE NegInf)
    ELSE Rat(x.n * y.d, x.d * y.n)

\* x - y
FSub(x, y) ==
    IF x = NaN \/ y = NaN THEN NaN
    ELSE IF IsInf(x) /\ IsInf(y) THEN (IF x = y THEN NaN ELSE x)
    ELSE IF IsInf(x) THEN x
    ELSE IF IsInf(y) THEN (IF y = PosInf THEN NegInf ELSE PosInf)
    ELSE Rat(x.n * y.d - y.n * x.d, x.d * y.d)

\* x * y
FMul(x, y) ==
    IF x = NaN \/ y = NaN THEN NaN
    ELSE IF IsInf(x) \/ IsInf(y)
         THEN (IF Sign(x) * Sign(y) = 0 THEN NaN
               ELSE IF Sign(x) * Sign(y) > 0 THEN PosInf ELSE NegInf)
    ELSE Rat(x.n * y.n, x.d * y.d)

(***************************************************************************)
(* pandas operations on a Series (a sequence of values)                    *)
(***************************************************************************)
\* Series.replace(0, np.nan) on the integers of a table column
replace_zero_nan(series) == [i \in 1..Len(series) |-> IF series[i] = 0 THEN NaN ELSE Float(series[i])]

\* mutant: infinities kept
replace_inf_kept(series) == series

\* Series.replace([np.inf, -np.inf], np.nan)
replace_inf_nan(series) == [i \in 1..Len(series) |-> IF IsInf(series[i]) THEN NaN ELSE series[i]]

ToFloat(series) == [i \in 1..Len(series) |-> Float(series[i])]

\* mutant: b / a
series_div_swapped(a, b) == [i \in 1..Len(a) |-> FDiv(b[i], a[i])]

\* a / b, element by element
series_div(a, b) == [i \in 1..Len(a) |-> FDiv(a[i], b[i])]

\* a * c for a scalar c
series_mul(a, c) == [i \in 1..Len(a) |-> FMul(a[i], Float(c))]

\* mutant: the ratio to the previous period, without the - 1
pct_change_ratio(series) ==
    [i \in 1..Len(series) |->
        IF i = 1 THEN NaN ELSE FDiv(Float(series[i]), Float(series[i - 1]))]

\* Series.pct_change(): data / data.shift(1) - 1, the first element NaN
pct_change(series) ==
    [i \in 1..Len(series) |->
        IF i = 1 THEN NaN
        ELSE FSub(FDiv(Float(series[i]), Float(series[i - 1])), Float(1))]

\* df[col_name].pct_change() * 100
growth_series(series) == series_mul(pct_change(series), 100)

(***************************************************************************)
(* str methods                                                             *)
(***************************************************************************)
UpperLetters == "ABCDEFGHIJKLMNOPQRSTUVWXYZ"

LowerLetters == "abcdefghijklmnopqrstuvwxyz"

UpperChars == {Ch(UpperLetters, i) : i \in 1..26}

LowerMap == [c \in UpperChars |-> Ch(LowerLetters, CHOOSE i \in 1..26 : Ch(UpperLetters, i) = c)]

LowerChar(c) == IF c \in UpperChars THEN LowerMap[c] ELSE c

RECURSIVE py_lower(_)
\* str.lower()
py_lower(s) == IF s = "" THEN "" ELSE py_lower(SubSeq(s, 1, Len(s) - 1)) \o LowerChar(Ch(s, Len(s)))

\* sub in s
Contains(sub, s) == \E i \in 1..(Len(s) - Len(sub) + 1) : SubSeq(s, i, i + Len(sub) - 1) = sub

(***************************************************************************)
(* Ordered dict: a sequence of <<key, value>> pairs                        *)
(***************************************************************************)
DictHas(d, key) == \E i \in 1..Len(d) : d[i][1] = key

DictGet(d, key) == d[CHOOSE i \in 1..Len(d) : d[i][1] = key][2]

\* d[key] = value: a new key goes last, an existing key keeps its place
DictSet(d, key, value) ==
    IF DictHas(d, key)
    THEN [i \in 1..Len(d) |-> IF d[i][1] = key THEN <<key, value>> ELSE d[i]]
    ELSE Append(d, <<key, value>>)

DictKeys(d) == [i \in 1..Len(d) |-> d[i][1]]

(***************************************************************************)
(* A transposed table (periods as rows, line items as columns):            *)
(* [index |-> period labels, columns |-> item labels, data |-> one Series  *)
(* per column].  Column labels are distinct, so df[label] is a Series.     *)
(***************************************************************************)
Column(df_, name) == df_.data[CHOOSE i \in 1..Len(df_.columns) : df_.columns[i] = name]

FrameEmpty(df_) == Len(df_.index) = 0 \/ Len(df_.columns) = 0

EmptyFrame == [index |-> <<>>, columns |-> <<>>, data |-> <<>>]

\* pd.DataFrame(analysis): one column per dict entry over the table's index
AnalysisFrame(df_, analysis) ==
    IF Len(analysis) = 0 THEN EmptyFrame
    ELSE [index |-> df_.index,
          columns |-> DictKeys(analysis),
          data |-> [i \in 1..Len(analysis) |-> analysis[i][2]]]

(***************************************************************************)
(* Metric resolution                                                       *)
(***************************************************************************)
bs_metric_patterns ==
    << <<"current_assets", <<"total current assets", "current assets", "total ca", "current asset">> >>,
       <<"current_liabilities", <<"total current liabilities", "current liabilities", "total cl", "current liability">> >>,
       <<"total_assets", <<"total assets", "total asset", "ta">> >>,
       <<"total_liabilities", <<"total liabilities", "total liability", "tl">> >>,
       <<"shareholders_funds", <<"total shareholders funds", "shareholders funds", "shareholders equity", "total equity", "equity", "net worth">> >>,
       <<"debt", <<"total debt", "total borrowings", "debt", "borrowings">> >> >>

pl_metric_patterns ==
    << <<"net_sales", <<"net sales", "total sales", "revenue", "total revenue", "sales revenue">> >>,
       <<"operating_profit", <<"operating profit", "operating income", "ebit", "profit before interest and tax", "operating surplus">> >>,
       <<"net_profit", <<"net profit", "reported net profit", "net income", "profit after tax", "net earnings">> >>,
       <<"gross_profit", <<"gross profit", "gross margin", "gross income">> >> >>

RECURSIVE MatchPattern(_, _, _)
\* for pattern in patterns: if pattern in col_lower: ... break
MatchPattern(patterns, col_lower, p) ==
    IF p > Len(patterns) THEN FALSE
    ELSE IF Contains(patterns[p], col_lower) THEN TRUE
    ELSE MatchPattern(patterns, col_lower, p + 1)

\* mutant: candidates in priority order first, columns second
ScanColumnsByPriority(patterns, columns, c) ==
    LET hits == {<<p, k>> \in (1..Len(patterns)) \X (1..Len(columns)) :
                    Contains(patterns[p], py_lower(columns[k]))}
    IN  IF hits = {} THEN Null
        ELSE columns[(CHOOSE h \in hits : \A g \in hits :
                         h[1] < g[1] \/ (h[1] = g[1] /\ h[2] <= g[2]))[2]]

RECURSIVE ScanColumns(_, _, _)
\* for col in df_.columns: the first column one of the patterns is found in
ScanColumns(patterns, columns, c) ==
    IF c > Len(columns) THEN Null
    ELSE IF MatchPattern(patterns, py_lower(columns[c]), 1) THEN columns[c]
    ELSE ScanColumns(patterns, columns, c + 1)

RECURSIVE FindMetrics(_, _, _, _)
\* for category, patterns in metric_patterns.items(): found_metrics[category] = col
FindMetrics(metric_patterns, columns, m, found) ==
    IF m > Len(metric_patterns) THEN found
    ELSE LET col == ScanColumns(metric_patterns[m][2], columns, 1)
         IN  FindMetrics(metric_patterns, columns, m + 1,
                         IF col = Null THEN found
                         ELSE DictSet(found, metric_patterns[m][1], col))

bs_found_metrics(df_) == FindMetrics(bs_metric_patterns, df_.columns, 1, <<>>)

pl_found_metrics(df_) == FindMetrics(pl_metric_patterns, df_.columns, 1, <<>>)

(***************************************************************************)
(* Analysers.  Each returns [found |-> resolution, frame |-> analysis].    *)
(***************************************************************************)
YoY(col_name) == col_name \o " YoY Growth (%)"

RECURSIVE bs_growth_loop(_, _, _, _, _)
\* for item in key_items: if item in found_metrics: analysis[...] = growth
bs_growth_loop(df_, found, key_items, i, analysis) ==
    IF i > Len(key_items) THEN analysis
    ELSE IF DictHas(found, key_items[i])
    THEN LET col_name == DictGet(found, key_items[i])
         IN  bs_growth_loop(df_, found, key_items, i + 1,
                            DictSet(analysis, YoY(col_name), growth_series(Column(df_, col_name))))
    ELSE bs_growth_loop(df_, found, key_items, i + 1, analysis)

\* balance_sheet.analyze_balance_sheet
analyze_balance_sheet(df_) ==
    IF df_ = None \/ FrameEmpty(df_) THEN [found |-> <<>>, frame |-> EmptyFrame]
    ELSE LET found == bs_found_metrics(df_)
             a0 == <<>>
             a1 == IF DictHas(found, "current_assets") /\ DictHas(found, "current_liabilities")
                   THEN DictSet(a0, "Current Ratio",
                                series_div(ToFloat(Column(df_, DictGet(found, "current_assets"))),
                                           replace_zero_nan(Column(df_, DictGet(found, "current_liabilities")))))
                   ELSE a0
             a2 == IF DictHas(found, "debt") /\ DictHas(found, "shareholders_funds")
                   THEN DictSet(a1, "Debt-to-Equity Ratio",
                                series_div(ToFloat(Column(df_, DictGet(found, "debt"))),
                                           replace_zero_nan(Column(df_, DictGet(found, "shareholders_funds")))))
                   ELSE a1
             a3 == bs_growth_loop(df_, found,
                                  <<"total_assets", "total_liabilities", "shareholders_funds">>, 1, a2)
         IN  [found |-> found, frame |-> AnalysisFrame(df_, a3)]

RECURSIVE pl_growth_loop(_, _, _, _)
\* for category, col_name in found_metrics.items(): analysis[...] = growth
pl_growth_loop(df_, found, i, analysis) ==
    IF i > Len(found) THEN analysis
    ELSE LET col_name == found[i][2]
         IN  pl_growth_loop(df_, found, i + 1,
                            DictSet(analysis, YoY(col_name), growth_series(Column(df_, col_name))))

\* profit_loss.analyze_profit_loss
analyze_profit_loss(df_) ==
    IF df_ = None \/ FrameEmpty(df_) THEN [found |-> <<>>, frame |-> EmptyFrame]
    ELSE LET found == pl_found_metrics(df_)
             a1 == pl_growth_loop(df_, found, 1, <<>>)
             a2 == IF DictHas(found, "operating_profit") /\ DictHas(found, "net_sales")
                   THEN DictSet(a1, "Operating Profit Margin (%)",
                                replace_inf_nan(series_mul(
                                    series_div(ToFloat(Column(df_, DictGet(found, "operating_profit"))),
                                               ToFloat(Column(df_, DictGet(found, "net_sales")))), 100)))
                   ELSE a1
             a3 == IF DictHas(found, "net_profit") /\ DictHas(found, "net_sales")
                   THEN DictSet(a2, "Net Profit Margin (%)",
                                replace_inf_nan(series_mul(
                                    series_div(ToFloat(Column(df_, DictGet(found, "net_profit"))),
                                               ToFloat(Column(df_, DictGet(found, "net_sales")))), 100)))
                   ELSE a2
         IN  [found |-> found, frame |-> AnalysisFrame(df_, a3)]

cf_key_metrics ==
    <<"Net Cash from Operating Activities", "Net Cash Used in Investing Activities",
      "Net Cash Used in Financing Activities">>

InColumns(df_, name) == \E i \in 1..Len(df_.columns) : df_.columns[i] = name

RECURSIVE cf_growth_loop(_, _, _)
\* for metric in key_metrics: if metric in df_.columns: analysis[...] = growth
cf_growth_loop(df_, i, analysis) ==
    IF i > Len(cf_key_metrics) THEN analysis
    ELSE IF InColumns(df_, cf_key_metrics[i])
    THEN cf_growth_loop(df_, i + 1,
                        DictSet(analysis, YoY(cf_key_metrics[i]),
                                growth_series(Column(df_, cf_key_metrics[i]))))
    ELSE cf_growth_loop(df_, i + 1, analysis)

\* cash_flow.analyze_cash_flow (it resolves metrics by exact column label)
analyze_cash_flow(df_) ==
    IF df_ = None THEN [found |-> <<>>, frame |-> None]
    ELSE LET a1 == cf_growth_loop(df_, 1, <<>>)
             a2 == IF InColumns(df_, cf_key_metrics[1]) /\ InColumns(df_, cf_key_metrics[2])
                   THEN DictSet(a1, "Op. CF to Inv. CF Ratio",
                                series_div(ToFloat(Column(df_, cf_key_metrics[1])),
                                           replace_zero_nan(Column(df_, cf_key_metrics[2]))))
                   ELSE a1
         IN  [found |-> <<>>, frame |-> AnalysisFrame(df_, a2)]

(***************************************************************************)
(* A raw grid (a header-less DataFrame): a sequence of rows of equal       *)
(* length, each cell NaN, an int, an integer-valued float or a str.  Row   *)
(* and column numbers are 0-based as in the source; row r is rows[r + 1].  *)
(***************************************************************************)
NaNCell == [t |-> "nan"]

IntCell(n) == [t |-> "int", n |-> n]

FloatCell(n) == [t |-> "float", n |-> n]

StrCell(s) == [t |-> "str", s |-> s]

notna(cell) == cell.t # "nan"

py_str_int(n) == IF n < 0 THEN "-" \o py_str_nat(0 - n) ELSE py_str_nat(n)

\* str(cell)
py_str(cell) ==
    CASE cell.t = "int" -> py_str_int(cell.n)
      [] cell.t = "float" -> py_str_int(cell.n) \o ".0"
      [] cell.t = "str" -> cell.s
      [] OTHER -> "nan"

NRows(frame) == Len(frame)

NCols(frame) == IF Len(frame) = 0 THEN 0 ELSE Len(frame[1])

\* df.empty
GridEmpty(frame) == NRows(frame) = 0 \/ NCols(frame) = 0

\* str(x).isdigit() for the text of a cell
py_isdigit(s) == IsAllDigits(s)

\* pd.to_numeric(..., errors='coerce') on one cell: a number, or NaN
to_numeric(cell) ==
    CASE cell.t \in {"int", "float"} -> IntCell(cell.n)
      [] cell.t = "str" ->
            LET t == py_strip(cell.s)
                neg == t # "" /\ Ch(t, 1) = "-"
                body == IF t # "" /\ Ch(t, 1) \in {"+", "-"} THEN SubSeq(t, 2, Len(t)) ELSE t
            IN  IF IsAllDigits(body)
                THEN IntCell(IF neg THEN 0 - DigitsValue(body) ELSE DigitsValue(body))
                ELSE NaNCell
      [] OTHER -> NaNCell

\* to_numeric(errors='coerce') followed by fillna(0): the number held
coerce(cell) == LET c == to_numeric(cell) IN IF notna(c) THEN c.n ELSE 0

(***************************************************************************)
(* re.search for the patterns of the source.  A pattern is a sequence of   *)
(* segments separated by ".*"; a segment is a sequence of atoms, an atom a *)
(* literal text or a run of k digits (\d{k}).                              *)
(***************************************************************************)
Lit(text) == [a |-> "lit", text |-> text]

Digits(k) == [a |-> "digits", k |-> k]

AtomLen(atom) == IF atom.a = "lit" THEN Len(atom.text) ELSE atom.k

AtomAt(atom, s, i) ==
    /\ i + AtomLen(atom) - 1 <= Len(s)
    /\ IF atom.a = "lit" THEN SubSeq(s, i, i + Len(atom.text) - 1) = atom.text
       ELSE IsAllDigits(SubSeq(s, i, i + atom.k - 1))

RECURSIVE SegmentLen(_)
SegmentLen(seg) == IF seg = <<>> THEN 0 ELSE AtomLen(Head(seg)) + SegmentLen(Tail(seg))

RECURSIVE SegmentAt(_, _, _)
SegmentAt(seg, s, i) ==
    IF seg = <<>> THEN TRUE
    ELSE AtomAt(Head(seg), s, i) /\ SegmentAt(Tail(seg), s, i + AtomLen(Head(seg)))

RECURSIVE re_search_from(_, _, _)
\* whether the segments occur in s, in order and without overlap, from position i on
re_search_from(pattern, s, i) ==
    IF pattern = <<>> THEN TRUE
    ELSE LET hits == {j \in i..Len(s) : SegmentAt(Head(pattern), s, j)}
         IN  IF Head(pattern) = <<>> THEN re_search_from(Tail(pattern), s, i)
             ELSE IF hits = {} THEN FALSE
             ELSE re_search_from(Tail(pattern), s,
                                 (CHOOSE j \in hits : \A k \in hits : j <= k) + SegmentLen(Head(pattern)))

\* re.search(pattern, s, re.IGNORECASE) is not None, s being lowercase already
re_search(pattern, s) == re_search_from(pattern, s, 1)

RECURSIVE any_pattern(_, _)
\* for pattern in patterns: if re.search(pattern, row_str): ... break
any_pattern(patterns, s) ==
    IF patterns = <<>> THEN FALSE
    ELSE re_search(Head(patterns), s) \/ any_pattern(Tail(patterns), s)

year_patterns ==
    << << <<Lit("year")>> >>,
       << <<Digits(4)>> >>,
       << <<Digits(6)>> >>,
       << <<Lit("fy")>>, <<Digits(4)>> >>,
       << <<Digits(4), Lit("-"), Digits(2)>> >> >>

balance_sheet_patterns ==
    << << <<Lit("balance")>>, <<Lit("sheet")>> >>,
       << <<Lit("assets")>> >>,
       << <<Lit("liabilities")>> >>,
       << <<Lit("equity")>> >>,
       << <<Lit("current")>>, <<Lit("assets")>> >>,
       << <<Lit("total")>>, <<Lit("assets")>> >>,
       << <<Lit("shareholders")>>, <<Lit("funds")>> >> >>

profit_loss_patterns ==
    << << <<Lit("income")>>, <<Lit(":")>> >>,
       << <<Lit("profit")>>, <<Lit("loss")>> >>,
       << <<Lit("p")>>, <<Lit("&")>>, <<Lit("l")>> >>,
       << <<Lit("revenue")>> >>,
       << <<Lit("sales")>> >>,
       << <<Lit("income")>>, <<Lit("statement")>> >>,
       << <<Lit("net")>>, <<Lit("sales")>> >> >>

RECURSIVE JoinCells(_, _)
\* ' '.join([str(cell).lower() for cell in row if pd.notna(cell)])
JoinCells(row, acc) ==
    IF row = <<>> THEN acc
    ELSE IF ~notna(Head(row)) THEN JoinCells(Tail(row), acc)
    ELSE JoinCells(Tail(row),
                   IF acc = Null THEN py_lower(py_str(Head(row)))
                   ELSE acc \o " " \o py_lower(py_str(Head(row))))

row_str(row) == LET j == JoinCells(row, Null) IN IF j = Null THEN "" ELSE j

\* the least of a set of row numbers, or -1
FirstOf(rows) == IF rows = {} THEN 0 - 1 ELSE CHOOSE r \in rows : \A q \in rows : r <= q

\* the first row (0-based) at or after row `start` whose text matches one of
\* the patterns, or -1
FirstMatchingRow(frame, patterns, start) ==
    FirstOf({r \in start..(NRows(frame) - 1) : any_pattern(patterns, row_str(frame[r + 1]))})

\* balance_sheet.find_data_structure once the year row is searched for: the
\* data starts right after the year row, else at the first keyword row
bs_data_start(frame, year_row_idx) ==
    IF year_row_idx # 0 - 1
    THEN [year_row_idx |-> year_row_idx, data_start_idx |-> year_row_idx + 1]
    ELSE [year_row_idx |-> 0 - 1,
          data_start_idx |-> FirstMatchingRow(frame, balance_sheet_patterns, 0)]

\* balance_sheet.find_data_structure: [year_row_idx, data_start_idx], -1 for None
bs_find_data_structure(frame) ==
    bs_data_start(frame, FirstMatchingRow(frame, year_patterns, 0))

\* data_start_idx = idx + 1 for the keyword row idx, None when there is none
AfterRow(idx) == IF idx = 0 - 1 THEN 0 - 1 ELSE idx + 1

\* mutant: the keyword scan takes the period row too
pl_data_start_from_year_row(frame, year_row_idx) ==
    [year_row_idx |-> year_row_idx,
     data_start_idx |->
        AfterRow(FirstMatchingRow(frame, profit_loss_patterns,
                                  IF year_row_idx = 0 - 1 THEN 0 ELSE year_row_idx))]

\* profit_loss.find_data_structure once the year row is searched for: rows
\* with idx <= (year_row_idx or 0) are skipped
pl_data_start(frame, year_row_idx) ==
    [year_row_idx |-> year_row_idx,
     data_start_idx |->
        AfterRow(FirstMatchingRow(frame, profit_loss_patterns,
                                  (IF year_row_idx = 0 - 1 THEN 0 ELSE year_row_idx) + 1))]

\* profit_loss.find_data_structure: [year_row_idx, data_start_idx], -1 for None
pl_find_data_structure(frame) ==
    pl_data_start(frame, FirstMatchingRow(frame, year_patterns, 0))

(***************************************************************************)
(* Uploaded files.  A file is [name, format, sheet, content, pos]: a        *)
(* workbook (format "xls" or "xlsx") holds the cell grid of its first      *)
(* sheet, a text file (format "text") holds its characters; pos is the     *)
(* stream position (0-based).  The bytes of a workbook are not modelled:   *)
(* they count as one unit, so its stream is at 0 or at its end, 1.         *)
(***************************************************************************)
Workbook(name, format, sheet) ==
    [name |-> name, format |-> format, sheet |-> sheet, content |-> "", pos |-> 0]

TextFile(name, content) ==
    [name |-> name, format |-> "text", sheet |-> <<>>, content |-> content, pos |-> 0]

Min(a, b) == IF a < b THEN a ELSE b

\* df.iloc[start:] (0-based start)
RowsFrom(frame, start) ==
    IF start >= NRows(frame) THEN <<>> ELSE SubSeq(frame, start + 1, NRows(frame))

RECURSIVE SeqOfSet(_)
\* a set of numbers as an increasing sequence
SeqOfSet(S) ==
    IF S = {} THEN <<>>
    ELSE LET lo == CHOOSE x \in S : \A y \in S : x <= y IN <<lo>> \o SeqOfSet(S \ {lo})

RECURSIVE SplitFrom(_, _, _)
\* str.split(sep) of the text from 1-based position i on
SplitFrom(s, sep, i) ==
    LET hits == {j \in i..Len(s) : Ch(s, j) = sep}
    IN  IF hits = {} THEN <<Slice(s, i - 1, Len(s))>>
        ELSE LET j == CHOOSE k \in hits : \A q \in hits : k <= q
             IN  <<Slice(s, i - 1, j - 1)>> \o SplitFrom(s, sep, j + 1)

py_split(s, sep) == SplitFrom(s, sep, 1)

\* the texts read_csv takes for a missing value
na_values ==
    {"", "#N/A", "#N/A N/A", "#NA", "-1.#IND", "-1.#QNAN", "-NaN", "-nan", "1.#IND", "1.#QNAN",
     "<NA>", "N/A", "NA", "NULL", "NaN", "None", "n/a", "nan", "null"}

\* the field is an integer literal
IsIntLiteral(field) ==
    LET body == IF field # "" /\ Ch(field, 1) \in {"+", "-"} THEN Slice(field, 1, Len(field)) ELSE field
    IN  IsAllDigits(body)

IntLiteral(field) ==
    IF Ch(field, 1) = "-" THEN 0 - DigitsValue(Slice(field, 1, Len(field)))
    ELSE IF Ch(field, 1) = "+" THEN DigitsValue(Slice(field, 1, Len(field)))
    ELSE DigitsValue(field)

\* a sheet cell as the parser sees it: a text that stands for a missing value
\* is NaN
Sanitized(cell) == IF cell.t = "str" /\ cell.s \in na_values THEN NaNCell ELSE cell

IsNumberCell(cell) ==
    cell.t \in {"int", "float"} \/ (cell.t = "str" /\ IsIntLiteral(cell.s))

NumberOf(cell) == IF cell.t = "str" THEN IntLiteral(cell.s) ELSE cell.n

\* pandas column dtypes of a sheet: a column whose cells are all numbers or
\* numerals is int64 (float64 with a missing cell, so its whole numbers print
\* as 2011.0), any other column keeps its cells as they are
excel_dtypes(rows) ==
    [r \in 1..Len(rows) |->
        [c \in 1..Len(rows[r]) |->
            LET column == {Sanitized(rows[q][c]) : q \in 1..Len(rows)}
                cell == Sanitized(rows[r][c])
            IN  IF ~notna(cell) THEN NaNCell
                ELSE IF \A x \in column : notna(x) => IsNumberCell(x)
                     THEN IF \E x \in column : x.t \in {"nan", "float"}
                          THEN FloatCell(NumberOf(cell))
                          ELSE IntCell(NumberOf(cell))
                ELSE cell]]

\* pd.read_excel(file, engine=engine, skiprows=skip, header=None): xlrd reads
\* the old format only, openpyxl the new one only, calamine both; pandas
\* rewinds the stream itself before it reads a workbook
read_excel(file, engine, skip) ==
    IF \/ engine = "xlrd" /\ file.format = "xls"
       \/ engine = "openpyxl" /\ file.format = "xlsx"
       \/ engine = "calamine" /\ file.format \in {"xls", "xlsx"}
    THEN Ok(excel_dtypes(RowsFrom(file.sheet, skip)))
    ELSE Raise("ValueError")

\* pandas column dtypes of parsed text: a column whose fields are all whole
\* numbers is int64 (float64 with a missing field), any other column keeps
\* its fields as text
csv_dtypes(rows) ==
    [r \in 1..Len(rows) |->
        [c \in 1..Len(rows[r]) |->
            LET present == {rows[q][c] : q \in 1..Len(rows)} \ na_values
                missing == \E q \in 1..Len(rows) : rows[q][c] \in na_values
            IN  IF rows[r][c] \in na_values THEN NaNCell
                ELSE IF \A f \in present : IsIntLiteral(f)
                     THEN IF missing THEN FloatCell(IntLiteral(rows[r][c]))
                          ELSE IntCell(IntLiteral(rows[r][c]))
                ELSE StrCell(rows[r][c])]]

\* file.seek(pos)
seek(file, pos) == [file EXCEPT !.pos = pos]

\* file.read(): the characters from the stream position on
read(file) == Slice(file.content, file.pos, Len(file.content))

\* the raw bytes of a workbook are not text
IsText(file) == file.format = "text"

\* the size of the stream
Size(file) == IF IsText(file) THEN Len(file.content) ELSE 1

\* the stream after a read: at its end
AtEnd(file) == [file EXCEPT !.pos = Size(file)]

\* io.StringIO(content): a fresh text stream at position 0
StringIO(content) == TextFile("<StringIO>", content)

\* the characters the tokenizer of read_csv takes for white space
BlankChars == {" ", "\t"}

\* a line read_csv skips: nothing but white space that is not the delimiter
BlankLine(line, delimiter) ==
    \A i \in 1..Len(line) : Ch(line, i) \in BlankChars \ {delimiter}

RECURSIVE FieldsFrom(_, _)
\* the fields of a line from 1-based position i on, split on runs of white space
FieldsFrom(line, i) ==
    LET starts == {j \in i..Len(line) : Ch(line, j) \notin BlankChars}
    IN  IF starts = {} THEN <<>>
        ELSE LET a == CHOOSE j \in starts : \A q \in starts : j <= q
                 stops == {j \in a..Len(line) : Ch(line, j) \in BlankChars}
                 b == IF stops = {} THEN Len(line) + 1
                      ELSE CHOOSE j \in stops : \A q \in stops : j <= q
             IN  <<Slice(line, a - 1, b - 1)>> \o FieldsFrom(line, b)

\* the delimiter '\s+': read_csv splits on runs of white space
Whitespace == "\\s+"

\* the fields of one line under a delimiter
Fields(line, delimiter) ==
    IF delimiter = Whitespace THEN FieldsFrom(line, 1) ELSE py_split(line, delimiter)

\* pd.read_csv(..., delimiter=delimiter, header=None) of a text: blank lines
\* are skipped, the first line fixes the number of columns, a shorter line is
\* padded and a longer one is an error
parse_csv(text, delimiter) ==
    LET all_lines == py_split(text, "\n")
        kept == SeqOfSet({i \in 1..Len(all_lines) : ~BlankLine(all_lines[i], delimiter)})
        rows == [i \in 1..Len(kept) |-> Fields(all_lines[kept[i]], delimiter)]
    IN  IF rows = <<>> THEN Raise("EmptyDataError")
        ELSE IF \E i \in 1..Len(rows) : Len(rows[i]) > Len(rows[1]) THEN Raise("ParserError")
        ELSE Ok(csv_dtypes([i \in 1..Len(rows) |->
                               [c \in 1..Len(rows[1]) |->
                                   IF c <= Len(rows[i]) THEN rows[i][c] ELSE ""]]))

\* pd.read_csv(file, delimiter=delimiter, header=None): parses what the
\* stream still holds
read_csv(file, delimiter) ==
    IF IsText(file) THEN parse_csv(read(file), delimiter) ELSE Raise("UnicodeDecodeError")

Frame(grid) == [ok |-> TRUE, df |-> grid]

NoFrame(error) == [ok |-> FALSE, error |-> error]

\* one read of a stream: the call, its engine or delimiter, the position of
\* the stream when the call is made and the offset the bytes are taken from
Attempt(op, arg, offset) == [op |-> op, arg |-> arg, position |-> offset, offset |-> offset]

\* what a call returned, the stream it leaves and the reads it made
Run(ret, file, reads) == [ret |-> ret, file |-> file, attempts |-> reads]

\* the reader opens a workbook from the start of the stream, whatever its
\* position (pandas rewinds the handle before it loads the workbook)
ExcelAttempt(file, engine) ==
    [op |-> "read_excel", arg |-> engine, position |-> file.pos, offset |-> seek(file, 0).pos]

xlsx_engines == <<"openpyxl", "xlrd", "calamine">>

xls_engines == <<"xlrd", "openpyxl">>

\* mutant: the delimiters in the opposite order
csv_delimiters_reversed == <<"|", ";", ",">>

csv_delimiters == <<",", ";", "|">>

RECURSIVE TryEngines(_, _, _)
\* the loop over engines: the first engine that reads a non-empty grid
TryEngines(file, engines, reads) ==
    IF engines = <<>> THEN Run(NoFrame("Failed to read Excel file with any engine"), file, reads)
    ELSE LET r == read_excel(file, Head(engines), 0)
         IN  IF r.ok /\ ~GridEmpty(r.val)
             THEN Run(Frame(r.val), AtEnd(file), Append(reads, ExcelAttempt(file, Head(engines))))
             ELSE TryEngines(AtEnd(file), Tail(engines),
                             Append(reads, ExcelAttempt(file, Head(engines))))

\* mutant: the loop over delimiters without its file.seek(0)
rewind_skipped(file) == file

\* file.seek(0) at the head of the loop over delimiters
rewind(file) == seek(file, 0)

RECURSIVE TryDelimiters(_, _, _)
\* the loop over delimiters: rewind, parse, accept a grid of several columns
TryDelimiters(file, delimiters, reads) ==
    IF delimiters = <<>> THEN Run(NoFrame("Failed to parse CSV file"), file, reads)
    ELSE LET r == read_csv(rewind(file), Head(delimiters))
         IN  IF r.ok /\ NCols(r.val) > 1
             THEN Run(Frame(r.val), AtEnd(file),
                      Append(reads, Attempt("read_csv", Head(delimiters), rewind(file).pos)))
             ELSE TryDelimiters(AtEnd(file), Tail(delimiters),
                                Append(reads, Attempt("read_csv", Head(delimiters), rewind(file).pos)))

\* the except clause of smart_file_reader; the text of an exception is its
\* class name
ErrorReading(exc) == NoFrame("Error reading file: " \o exc)

\* pd.read_csv(io.StringIO(content), delimiter=delimiter, header=None), any
\* grid it yields being returned
read_text(content, delimiter) ==
    LET r == read_csv(StringIO(content), delimiter)
    IN  IF r.ok THEN Frame(r.val) ELSE ErrorReading(r.exc)

gp_delimiters == <<"\t", ",", ";", "|">>

RECURSIVE best_delimiter(_, _, _, _, _)
\* the loops over delimiters and lines: a line that is not blank and gives
\* more columns than any before sets the delimiter
best_delimiter(lines, d, l, max_columns, best) ==
    IF d > Len(gp_delimiters) THEN best
    ELSE IF l > Len(lines) THEN best_delimiter(lines, d + 1, 1, max_columns, best)
    ELSE IF py_strip(lines[l]) # "" /\ Len(py_split(lines[l], gp_delimiters[d])) > max_columns
    THEN best_delimiter(lines, d, l + 1, Len(py_split(lines[l], gp_delimiters[d])), gp_delimiters[d])
    ELSE best_delimiter(lines, d, l + 1, max_columns, best)

\* content.split('\n')[:count]
FirstLines(content, count) ==
    SubSeq(py_split(content, "\n"), 1, Min(count, Len(py_split(content, "\n"))))

\* the .gp branch once the content is read and the delimiter picked: rewind,
\* parse the text
gp_parse(stream, content, delimiter) ==
    Run(read_text(content, delimiter), seek(AtEnd(stream), 0),
        <<Attempt("read", Null, stream.pos),
          Attempt("read_csv", delimiter, StringIO(content).pos)>>)

\* the .gp branch: rewind, read (the bytes of a workbook are not text), pick
\* the delimiter from the first 5 lines
gp_reader(file) ==
    IF ~IsText(file)
    THEN Run(ErrorReading("UnicodeDecodeError"), AtEnd(file),
             <<Attempt("read", Null, rewind(file).pos)>>)
    ELSE gp_parse(rewind(file), read(rewind(file)),
                  best_delimiter(FirstLines(read(rewind(file)), 5), 1, 1, 0, "\t"))

\* the delimiter of a .txt file, from its first line
detect_delimiter(first_line) ==
    IF Contains("\t", first_line) THEN "\t"
    ELSE IF Contains(",", first_line) THEN ","
    ELSE IF Contains(";", first_line) THEN ";"
    ELSE Whitespace

text_delimiter(content, file_extension_) ==
    IF file_extension_ = ".tsv" THEN "\t" ELSE detect_delimiter(py_split(content, "\n")[1])

\* the .txt/.tsv branch once the content is read and the delimiter picked
text_parse(stream, content, delimiter) ==
    Run(read_text(content, delimiter), AtEnd(stream),
        <<Attempt("read", Null, stream.pos),
          Attempt("read_csv", delimiter, StringIO(content).pos)>>)

\* the .txt/.tsv branch: rewind, read, pick the delimiter
text_reader(file, file_extension_) ==
    IF ~IsText(file)
    THEN Run(ErrorReading("UnicodeDecodeError"), AtEnd(file),
             <<Attempt("read", Null, rewind(file).pos)>>)
    ELSE text_parse(rewind(file), read(rewind(file)),
                    text_delimiter(read(rewind(file)), file_extension_))

SupportedExtensions == {".xls", ".xlsx", ".csv", ".gp", ".txt", ".tsv"}

\* smart_file_reader: what it returns (the grid or the error), the stream it
\* leaves and the reads it made
smart_file_reader(file, file_extension_) ==
    CASE file_extension_ \in {".xls", ".xlsx"} ->
            TryEngines(file, IF file_extension_ = ".xlsx" THEN xlsx_engines ELSE xls_engines, <<>>)
      [] file_extension_ = ".csv" -> TryDelimiters(file, csv_delimiters, <<>>)
      [] file_extension_ = ".gp" -> gp_reader(file)
      [] file_extension_ \in {".txt", ".tsv"} -> text_reader(file, file_extension_)
      [] OTHER -> Run(NoFrame("Unsupported file format: " \o file_extension_), file, <<>>)

\* profit_loss.smart_file_reader: the same text as balance_sheet's
pl_smart_file_reader(file, file_extension_) == smart_file_reader(file, file_extension_)

(***************************************************************************)
(* Loaders.  A loaded table is [items |-> line-item cells, periods |->     *)
(* period labels, values |-> one row of numbers per line item]; a failed   *)
(* load is None.  Each loader is written as the chain of its steps, every  *)
(* step taking what the steps before it computed.                          *)
(***************************************************************************)
Table(items, periods, values) == [items |-> items, periods |-> periods, values |-> values]

\* the positions (0-based, from column 1 on) of a row's cells that are not NaN
NotNaPositions(row) == {j \in 1..(Len(row) - 1) : notna(row[j + 1])}

HasDuplicates(seq) == \E i \in 1..Len(seq) : \E j \in 1..Len(seq) : i # j /\ seq[i] = seq[j]

AllZero(nums) == \A i \in 1..Len(nums) : nums[i] = 0

\* df.dropna(subset=..., how='all'): the rows with a value in one of the
\* columns at the positions
dropna(data, subset) ==
    LET kept == SeqOfSet({r \in 1..Len(data) : \E j \in subset : notna(data[r][j + 1])})
    IN  [i \in 1..Len(kept) |-> data[kept[i]]]

\* pd.to_numeric(..., errors='coerce') and fillna(0) on the columns at the positions
numeric_rows(rows, positions) ==
    [r \in 1..Len(rows) |-> [i \in 1..Len(positions) |-> coerce(rows[r][positions[i] + 1])]]

\* the grid columns 1..count
FirstColumns(count) == [i \in 1..count |-> i]

\* data_df[~(data_df == 0).all(axis=1)]: the rows that are not all zero
drop_zero_rows(table) ==
    LET order == SeqOfSet({i \in 1..Len(table.values) : ~AllZero(table.values[i])})
    IN  Table([i \in 1..Len(order) |-> table.items[order[i]]],
              table.periods,
              [i \in 1..Len(order) |-> table.values[order[i]]])

\* two column labels are the same label
SameLabel(a, b) ==
    IF a.t = "str" /\ b.t = "str" THEN a.s = b.s
    ELSE IF a.t = "nan" \/ b.t = "nan" THEN a.t = b.t
    ELSE a.t \in {"int", "float"} /\ b.t \in {"int", "float"} /\ a.n = b.n

\* data_df.rename(columns={first_col_name: 'Item'}): every column that
\* carries the first column's label is renamed
RenameItem(header) ==
    IF ~notna(header[1]) \/ py_lower(py_str(header[1])) \in {"year", "nan"}
    THEN [j \in 1..Len(header) |->
             IF SameLabel(header[j], header[1]) THEN StrCell("Item") ELSE header[j]]
    ELSE header

\* load_balance_sheet_file: the period row and the first data row it settles on
bs_defaults(found) ==
    IF found.year_row_idx = 0 - 1
    THEN [year_row_idx |-> 0, data_start_idx |-> 1]
    ELSE [year_row_idx |-> found.year_row_idx,
          data_start_idx |-> IF found.data_start_idx = 0 - 1 THEN found.year_row_idx + 1
                             ELSE found.data_start_idx]

bs_layout(frame) == bs_defaults(bs_find_data_structure(frame))

\* dropna(subset=..., how='all') selects columns by label: column 0 takes
\* part when its label is also the label of a year column
bs_subset(header) ==
    NotNaPositions(header) \cup
        (IF \E j \in NotNaPositions(header) : SameLabel(header[1], header[j + 1]) THEN {0} ELSE {})

\* parse_year(str(col)) for the year columns
bs_parsed_year_cols(header, pad) ==
    LET year_cols == SeqOfSet(NotNaPositions(header))
    IN  [i \in 1..Len(year_cols) |-> bs_parse_year(py_str(header[year_cols[i] + 1]), pad).val]

\* load_balance_sheet_file from the cleaned rows and the parsed labels on
bs_table(rows, ncols, parsed_year_cols) ==
    IF rows = <<>> THEN None                                  \* "No data found after processing"
    ELSE IF parsed_year_cols = <<>> THEN None                 \* "No year columns found"
    ELSE IF Len(parsed_year_cols) + 1 # ncols THEN None       \* Length mismatch (ValueError)
    ELSE IF HasDuplicates(<<"Item">> \o parsed_year_cols) THEN None \* to_numeric of a DataFrame (TypeError)
    ELSE drop_zero_rows(
             Table([r \in 1..Len(rows) |-> IF notna(rows[r][1]) THEN rows[r][1] ELSE IntCell(0)],
                   parsed_year_cols,
                   numeric_rows(rows, FirstColumns(Len(parsed_year_cols)))))

\* load_balance_sheet_file from the header and the data rows on
bs_load_rows(header, data, ncols, pad) ==
    bs_table(dropna(data, bs_subset(header)), ncols, bs_parsed_year_cols(header, pad))

\* load_balance_sheet_file from the grid the reader returned
bs_load_frame(frame, layout, pad) ==
    bs_load_rows(RenameItem(frame[layout.year_row_idx + 1]),
                 RowsFrom(frame, layout.data_start_idx), NCols(frame), pad)

bs_load_reader(reader, pad) ==
    IF ~reader.ok THEN None                                   \* "Error reading file"
    ELSE IF GridEmpty(reader.df) THEN None                    \* "File is empty or contains no data"
    ELSE bs_load_frame(reader.df, bs_layout(reader.df), pad)

\* what the loader returns after the reader ran
bs_load_read(reading, pad) ==
    Run(bs_load_reader(reading.ret, pad), reading.file, reading.attempts)

\* balance_sheet.load_balance_sheet_file: the table or None, the stream it
\* leaves and the reads it made
load_balance_sheet_file(file, file_extension_, pad) ==
    bs_load_read(smart_file_reader(file, file_extension_), pad)

\* load_profit_loss_file: the period row and the first data row it settles on
pl_defaults(found) ==
    [year_row_idx |-> IF found.year_row_idx = 0 - 1 THEN 0 ELSE found.year_row_idx,
     data_start_idx |->
        IF found.data_start_idx = 0 - 1
        THEN (IF found.year_row_idx = 0 - 1 THEN 0 ELSE found.year_row_idx) + 2
        ELSE found.data_start_idx]

pl_layout(frame) == pl_defaults(pl_find_data_structure(frame))

\* [parse_year(str(y)) for y in years], years being the period row without
\* its gaps
pl_parsed_years(header, pad) ==
    LET years == SeqOfSet(NotNaPositions(header))
    IN  [i \in 1..Len(years) |-> pl_parse_year(py_str(header[years[i] + 1]), pad).val]

\* load_profit_loss_file from the cleaned rows and the column labels on
pl_table(rows, columns) ==
    IF rows = <<>> THEN None                                  \* "No data found after processing"
    ELSE IF HasDuplicates(columns) THEN None                  \* to_numeric of a DataFrame (TypeError)
    ELSE drop_zero_rows(Table([r \in 1..Len(rows) |-> rows[r][1]],
                              columns,
                              numeric_rows(rows, FirstColumns(Len(columns)))))

\* load_profit_loss_file from the parsed period labels on
pl_load_rows(frame, data_start_idx, parsed_years) ==
    IF parsed_years = <<>> THEN None                          \* "No year data found"
    ELSE IF data_start_idx >= NRows(frame) THEN None          \* "Data start index is beyond file length"
    ELSE pl_table(dropna(RowsFrom(frame, data_start_idx), 0..(NCols(frame) - 1)),
                  SubSeq(parsed_years, 1, Min(Len(parsed_years), NCols(frame) - 1)))

\* load_profit_loss_file from the grid the reader returned
pl_load_frame(frame, layout, pad) ==
    pl_load_rows(frame, layout.data_start_idx,
                 pl_parsed_years(frame[layout.year_row_idx + 1], pad))

pl_load_reader(reader, pad) ==
    IF ~reader.ok THEN None                                   \* "Error reading file"
    ELSE IF GridEmpty(reader.df) THEN None                    \* "File is empty or contains no data"
    ELSE pl_load_frame(reader.df, pl_layout(reader.df), pad)

\* what the loader returns after the reader ran
pl_load_read(reading, pad) ==
    Run(pl_load_reader(reading.ret, pad), reading.file, reading.attempts)

\* profit_loss.load_profit_loss_file: the table or None, the stream it
\* leaves and the reads it made
load_profit_loss_file(file, file_extension_, pad) ==
    pl_load_read(pl_smart_file_reader(file, file_extension_), pad)

\* Series.str.match('Year', na=False): the cell is text that starts with Year
StartsWithYear(cell) == cell.t = "str" /\ Slice(cell.s, 0, 4) = "Year"

\* Series.str.contains('Cash Flow Summary', na=False)
ContainsSummary(cell) == cell.t = "str" /\ Contains("Cash Flow Summary", cell.s)

skiprows == 5

\* load_cash_flow_file: the period row and the first data row, -1 where the
\* lookup finds no row (IndexError)
cf_layout(frame) ==
    [year_row_idx |->
        FirstOf({r \in 0..(NRows(frame) - 1) : StartsWithYear(frame[r + 1][1])}),
     data_start_idx |->
        AfterRow(AfterRow(FirstOf({r \in 0..(NRows(frame) - 1) : ContainsSummary(frame[r + 1][1])})))]

\* [parse_year(str(y)) for y in years]
cf_parsed_years(header, pad) ==
    LET years == SeqOfSet(NotNaPositions(header))
    IN  [i \in 1..Len(years) |-> utils_parse_year(py_str(header[years[i] + 1]), pad).val]

\* after set_index on column 0, .iloc[:, 1:count + 1] is the grid columns
\* 2..count + 1 as far as the grid has them
cf_picked(ncols, count) ==
    IF Min(count + 1, ncols - 1) < 2 THEN <<>>
    ELSE [i \in 1..(Min(count + 1, ncols - 1) - 1) |-> i + 1]

\* load_cash_flow_file from the data rows and the parsed labels on
cf_table(data, parsed_years, picked) ==
    IF Len(picked) # Len(parsed_years) THEN None              \* Length mismatch (ValueError)
    ELSE Table([r \in 1..Len(data) |-> data[r][1]], parsed_years, numeric_rows(data, picked))

\* load_cash_flow_file from the grid read_excel returned
cf_load_frame(frame, layout, pad) ==
    IF layout.year_row_idx = 0 - 1 THEN None                  \* [...].tolist()[0] (IndexError)
    ELSE IF layout.data_start_idx = 0 - 1 THEN None           \* [...].tolist()[0] (IndexError)
    ELSE cf_table(RowsFrom(frame, layout.data_start_idx),
                  cf_parsed_years(frame[layout.year_row_idx + 1], pad),
                  cf_picked(NCols(frame), Cardinality(NotNaPositions(frame[layout.year_row_idx + 1]))))

cf_load_reader(reader, pad) ==
    IF ~reader.ok THEN None
    ELSE IF GridEmpty(reader.val) THEN None                   \* df.iloc[:, 0] (IndexError)
    ELSE cf_load_frame(reader.val, cf_layout(reader.val), pad)

\* cash_flow.load_cash_flow_file: the table or None, the stream it leaves
\* and the one read it made
load_cash_flow_file(file, pad) ==
    Run(cf_load_reader(read_excel(file, "xlrd", skiprows), pad), AtEnd(file),
        <<ExcelAttempt(file, "xlrd")>>)

(***************************************************************************)
(* Transposition, charts and the processing entry points.  The tables of   *)
(* the runs carry distinct text labels, so a transposed table is a frame   *)
(* of the kind the analysers take.                                         *)
(***************************************************************************)
Transposed(table) ==
    [index |-> table.periods,
     columns |-> [i \in 1..Len(table.items) |-> py_str(table.items[i])],
     data |-> table.values]

\* df.empty of a loaded table
TableEmpty(table) == Len(table.items) = 0 \/ Len(table.periods) = 0

\* balance_sheet.rearrange_data
bs_rearrange_data(table) ==
    IF table = None THEN None ELSE IF TableEmpty(table) THEN None ELSE Transposed(table)

\* profit_loss.rearrange_data
pl_rearrange_data(table) ==
    IF table = None THEN None ELSE IF TableEmpty(table) THEN None ELSE Transposed(table)

\* utils.rearrange_data
utils_rearrange_data(table) == IF table = None THEN None ELSE Transposed(table)

\* balance_sheet.visualize_trends and profit_loss.visualize_trends: every
\* column of a transposed table is numeric, so some metric is always chosen;
\* drawing is taken to succeed
visualize_trends(df_) ==
    IF df_ = None THEN Null ELSE IF FrameEmpty(df_) THEN Null ELSE "figure"

\* cash_flow.visualize_trends
cf_visualize_trends(df_) == IF df_ = None THEN Null ELSE "figure"

Tuple4(raw, rearranged, analysis, fig) ==
    [raw |-> raw, rearranged |-> rearranged, analysis |-> analysis, fig |-> fig]

AllNone == Tuple4(None, None, None, Null)

\* process_balance_sheet_file from the loaded and the rearranged table on
bs_results(balance_sheet_df, rearranged_df) ==
    IF rearranged_df = None THEN Tuple4(balance_sheet_df, None, None, Null)
    ELSE Tuple4(balance_sheet_df, rearranged_df,
                analyze_balance_sheet(rearranged_df).frame, visualize_trends(rearranged_df))

bs_process_loaded(balance_sheet_df) ==
    IF balance_sheet_df = None THEN AllNone
    ELSE bs_results(balance_sheet_df, bs_rearrange_data(balance_sheet_df))

\* what the function returns after the loader ran
bs_process_load(loading) ==
    Run(bs_process_loaded(loading.ret), loading.file, loading.attempts)

\* balance_sheet.process_balance_sheet_file: the four results, the stream it
\* leaves and the reads it made
process_balance_sheet_file(file, file_extension_, pad) ==
    bs_process_load(load_balance_sheet_file(file, file_extension_, pad))

\* process_profit_loss_file from the loaded and the rearranged table on
pl_results(profit_loss_df, rearranged_df) ==
    IF rearranged_df = None THEN Tuple4(profit_loss_df, None, None, Null)
    ELSE Tuple4(profit_loss_df, rearranged_df,
                analyze_profit_loss(rearranged_df).frame, visualize_trends(rearranged_df))

pl_process_loaded(profit_loss_df) ==
    IF profit_loss_df = None THEN AllNone
    ELSE pl_results(profit_loss_df, pl_rearrange_data(profit_loss_df))

\* what the function returns after the loader ran
pl_process_load(loading) ==
    Run(pl_process_loaded(loading.ret), loading.file, loading.attempts)

\* profit_loss.process_profit_loss_file: the four results, the stream it
\* leaves and the reads it made
process_profit_loss_file(file, file_extension_, pad) ==
    pl_process_load(load_profit_loss_file(file, file_extension_, pad))

\* process_cash_flow_file from the loaded and the rearranged table on
cf_results(cash_flow_df, rearranged_df) ==
    Tuple4(cash_flow_df, rearranged_df,
           analyze_cash_flow(rearranged_df).frame, cf_visualize_trends(rearranged_df))

cf_process_loaded(cash_flow_df) ==
    IF cash_flow_df = None THEN AllNone
    ELSE cf_results(cash_flow_df, utils_rearrange_data(cash_flow_df))

\* what the function returns after the loader ran
cf_process_load(loading) ==
    Run(cf_process_loaded(loading.ret), loading.file, loading.attempts)

\* cash_flow.process_cash_flow_file: the four results, the stream it leaves
\* and the reads it made
process_cash_flow_file(file, pad) == cf_process_load(load_cash_flow_file(file, pad))

(***************************************************************************)
(* The upload flow                                                         *)
(***************************************************************************)
process_functions ==
    << <<"Cash Flow", "process_cash_flow_file">>,
       <<"Profit and Loss", "process_profit_loss_file">>,
       <<"Balance Sheet", "process_balance_sheet_file">> >>

\* the fewest and the most positional arguments each def takes
Parameters(func) ==
    CASE func = "process_cash_flow_file" -> [required |-> 1, accepted |-> 1]
      [] func = "process_profit_loss_file" -> [required |-> 1, accepted |-> 2]
      [] func = "process_balance_sheet_file" -> [required |-> 1, accepted |-> 2]

\* func(*args): TypeError when the argument count does not fit the def
Call(func, args, pad) ==
    IF Len(args) < Parameters(func).required \/ Len(args) > Parameters(func).accepted
    THEN Raise("TypeError")
    ELSE CASE func = "process_cash_flow_file" -> Ok(process_cash_flow_file(args[1], pad))
           [] func = "process_profit_loss_file" ->
                 Ok(process_profit_loss_file(args[1], IF Len(args) > 1 THEN args[2] ELSE ".xls", pad))
           [] func = "process_balance_sheet_file" ->
                 Ok(process_balance_sheet_file(args[1], IF Len(args) > 1 THEN args[2] ELSE ".xls", pad))

\* os.path.splitext(filename)[1] for a name without directories
splitext(filename) ==
    LET dots == {i \in 1..Len(filename) : Ch(filename, i) = "."}
    IN  IF dots = {} THEN ""
        ELSE LET last == CHOOSE i \in dots : \A j \in dots : j <= i
             IN  IF \A i \in 1..(last - 1) : Ch(filename, i) = "." THEN ""
                 ELSE Slice(filename, last - 1, Len(filename))

\* main.detect_file_format: the extension, or Null
detect_file_format(file) ==
    LET ext == splitext(py_lower(file.name))
    IN  IF ext \in SupportedExtensions THEN ext ELSE Null

\* mutant: any line that is not blank passes the check
looks_tabular_any_line(lines) ==
    \E i \in 1..Len(lines) : py_strip(lines[i]) # ""

\* the check of the first 10 lines: some line that is not blank holds a
\* comma or a tab
looks_tabular(lines) ==
    \E i \in 1..Len(lines) :
        /\ py_strip(lines[i]) # ""
        /\ (Contains(",", lines[i]) \/ Contains("\t", lines[i]))

\* the text branch once the content is read: an empty text is rejected
\* before the second rewind
validate_text(stream, content) ==
    IF py_strip(content) = ""
    THEN Run(FALSE, AtEnd(stream), <<Attempt("read", Null, stream.pos)>>)
    ELSE Run(looks_tabular(FirstLines(content, 10)), seek(AtEnd(stream), 0),
             <<Attempt("read", Null, stream.pos)>>)

\* main.validate_file_content: is_valid, the stream it leaves and the reads
\* it made
validate_file_content(file, file_extension_) ==
    IF file_extension_ \in {".csv", ".gp", ".txt", ".tsv"}
    THEN IF ~IsText(file)                                   \* UnicodeDecodeError
         THEN Run(FALSE, AtEnd(file), <<Attempt("read", Null, seek(file, 0).pos)>>)
         ELSE validate_text(seek(file, 0), read(seek(file, 0)))
    ELSE IF file_extension_ \in {".xls", ".xlsx"}
    THEN \* pd.read_excel(uploaded_file, nrows=1): the first row is the header
         Run(/\ file.format \in {"xls", "xlsx"}
             /\ NRows(file.sheet) > 1
             /\ NCols(file.sheet) > 0,
             AtEnd(file), <<ExcelAttempt(seek(file, 0), Null)>>)
    ELSE Run(TRUE, file, <<>>)

(***************************************************************************)
(* Period tokens the normalisers are run on                                *)
(***************************************************************************)
MaxTokenLen == 6

RECURSIVE Strings(_, _)
\* every string over the characters A of length at most n
Strings(A, n) ==
    IF n = 0 THEN {""}
    ELSE LET S == Strings(A, n - 1) IN S \cup {s \o c : s \in S, c \in A}

YearDigits == {"0", "1", "2"}

Years == {a \o b \o c \o d : a \in YearDigits, b \in YearDigits, c \in YearDigits, d \in YearDigits}

TwoDigits == {a \o b : a \in DigitChars, b \in DigitChars}

SixDigitTokens == {y \o m : y \in Years, m \in TwoDigits}

EightDigitTokens == {y \o m \o "31" : y \in Years, m \in TwoDigits}

FreeChars == {"1", "a", "-", " ", "_"}

FreeTokens == Strings(FreeChars, MaxTokenLen)

\* "@" stands for a letter outside ASCII (the module is kept in ASCII); no
\* operation of the source treats such a letter differently from "a"
ExampleTokens ==
    {"2011", "201103", "20110331", "abcd", "FY2011", "2011-12", "Mar 2011",
     "2011@3", "@", "@@@@", "-20113", "2011+3", "9999", "999912", "201113"}

Tokens == FreeTokens \cup Years \cup SixDigitTokens \cup EightDigitTokens \cup ExampleTokens

(***************************************************************************)
(* Normalisation runs                                                      *)
(***************************************************************************)
NormInit ==
    /\ pc = "token"
    /\ padYear \in BOOLEAN
    /\ token \in Tokens
    /\ label = None
    /\ df = None /\ found_metrics = <<>> /\ analysis_df = None
    /\ uploaded_file = None /\ file_extension = Null /\ attempts = <<>> /\ result = None

\* balance_sheet.parse_year(str(col)), as load_balance_sheet_file calls it
NormalizeBalanceSheet ==
    /\ pc = "token"
    /\ label' = bs_parse_year(token, padYear)
    /\ pc' = "bs"
    /\ UNCHANGED <<padYear, token, anaVars, fileVars>>

\* profit_loss.parse_year(str(y)), as load_profit_loss_file calls it
NormalizeProfitLoss ==
    /\ pc = "token"
    /\ label' = pl_parse_year(token, padYear)
    /\ pc' = "pl"
    /\ UNCHANGED <<padYear, token, anaVars, fileVars>>

\* utils.parse_year(str(y)), as load_cash_flow_file calls it
NormalizeCashFlow ==
    /\ pc = "token"
    /\ label' = utils_parse_year(token, padYear)
    /\ pc' = "utils"
    /\ UNCHANGED <<padYear, token, anaVars, fileVars>>

NormNext == NormalizeBalanceSheet \/ NormalizeProfitLoss \/ NormalizeCashFlow

SpecNormalize == NormInit /\ [][NormNext]_vars

Normalized == pc \in {"bs", "pl", "utils"}

\* the three-letter month abbreviation of a two-digit month text 01..12
MonthOf(mm) == DigitVal(Ch(mm, 1)) * 10 + DigitVal(Ch(mm, 2))

ValidMonths == {"01", "02", "03", "04", "05", "06", "07", "08", "09", "10", "11", "12"}

RECURSIVE StripLeadingZeros(_)
StripLeadingZeros(s) ==
    IF Len(s) > 1 /\ Ch(s, 1) = "0" THEN StripLeadingZeros(SubSeq(s, 2, Len(s))) ELSE s

\* C1: every 4-character all-digit token is normalised to "FY-<token>" by each
\* of the three normalisers (Balance Sheet, Profit and Loss, utils/Cash Flow).
C1_FourDigitsGiveFY ==
    (Normalized /\ Len(token) = 4 /\ IsAllDigits(token)) => label = Ok("FY-" \o token)

\* C2 (as claimed): every 6-digit token YYYYMM with MM in 01..12, for every
\* YYYY including 0000, is normalised to "<Mon>-<YYYY>".
C2_SixDigitsGiveMonthYear ==
    (Normalized /\ Len(token) = 6 /\ IsAllDigits(token) /\ Slice(token, 4, 6) \in ValidMonths)
        => label = Ok(MonthAbbr[MonthOf(Slice(token, 4, 6))] \o "-" \o Slice(token, 0, 4))

\* C2 (amended): for a 6-digit token YYYYMM with MM in 01..12 the result is
\* "<Mon>-<YYYY>" when YYYY is 1000..9999; when YYYY is 0001..0999 it is
\* "<Mon>-" followed by YYYY either as written or without its leading zeros
\* (the platform's %Y decides); when YYYY is 0000 it is the token unchanged.
C2_SixDigitsGiveMonthYearFrom1000 ==
    (Normalized /\ Len(token) = 6 /\ IsAllDigits(token) /\ Slice(token, 4, 6) \in ValidMonths)
        => LET yyyy == Slice(token, 0, 4)
               mon == MonthAbbr[MonthOf(Slice(token, 4, 6))]
           IN  /\ label.ok
               /\ Ch(yyyy, 1) # "0" => label.val = mon \o "-" \o yyyy
               /\ (Ch(yyyy, 1) = "0" /\ yyyy # "0000")
                     => label.val \in {mon \o "-" \o yyyy, mon \o "-" \o StripLeadingZeros(yyyy)}
               /\ yyyy = "0000" => label.val = token

C2_Witness ==
    /\ pc = "utils" /\ token = "201103" /\ label = Ok("Mar-2011")

\* C3: each normaliser is total: on every string (empty, text, non-ASCII,
\* negative-looking, invalid month) it returns a string and does not raise.
C3_NormalizerTotal == Normalized => (label.ok /\ label.val \in STRING)

C3_Witness ==
    /\ pc = "bs" /\ token = "2011@3" /\ label = Ok("2011@3")

\* a token of length 4, 6 or 8, without surrounding whitespace, that is not
\* made of digits only, after the Balance Sheet or Profit and Loss normaliser
NonDigitToken ==
    /\ pc \in {"bs", "pl"}
    /\ Len(token) \in {4, 6, 8}
    /\ py_strip(token) = token
    /\ ~IsAllDigits(token)

\* C21: a token of length 4, 6 or 8 that contains a non-digit character is
\* handled by the 'otherwise' rule of the period normaliser: the result is
\* "FY-<run>" for the first run of 4 digits in the token when there is one,
\* and the token verbatim otherwise ("abcd" gives "abcd", never "FY-abcd").
C21_NonDigitTokensFallThrough ==
    NonDigitToken
        => label = Ok(IF re_search_d4(token) # Null
                      THEN "FY-" \o re_search_d4(token) ELSE token)

(***************************************************************************)
(* Analysis runs: a transposed table is handed to one analyser             *)
(***************************************************************************)
MaxColumns == 2

MaxPeriods == 2

LabelPool ==
    {"Total Current Assets (Rs. Cr)", "Current Assets", "Total Current Liabilities",
     "Total Debt", "Equity Share Capital", "Cash", "Net Sales", "Operating Profit",
     "Gross Profit", "Net Cash from Operating Activities"}

Values == {0 - 50, 0, 100}

RatioColumns ==
    { <<"Total Current Assets", "Total Current Liabilities">>,
      <<"Total Debt", "Shareholders Funds">>,
      <<"Operating Profit", "Net Sales">>,
      <<"Net Profit", "Net Sales">>,
      <<"Net Cash from Operating Activities", "Net Cash Used in Investing Activities">> }

PeriodName(i) == "FY-201" \o DigitChar(i)

PeriodNames(n) == [i \in 1..n |-> PeriodName(i)]

DistinctSeqs(S, n) == {q \in [1..n -> S] : \A i \in 1..n : \A j \in 1..n : q[i] = q[j] => i = j}

\* tables that vary the column labels, each column holding <<100, 150>>
LabelTables ==
    {[index |-> PeriodNames(2), columns |-> cols, data |-> [i \in 1..Len(cols) |-> <<100, 150>>]] :
        cols \in UNION {DistinctSeqs(LabelPool, n) : n \in 1..MaxColumns}}

\* tables that vary the values of two columns a ratio is computed from
ValueTables ==
    UNION {{[index |-> PeriodNames(n), columns |-> cols, data |-> d] :
                cols \in RatioColumns, d \in [1..2 -> [1..n -> Values]]} : n \in 1..MaxPeriods}

AnaInit ==
    /\ pc = "table"
    /\ df \in LabelTables \cup ValueTables
    /\ found_metrics = <<>>
    /\ analysis_df = None
    /\ padYear = FALSE /\ token = Null /\ label = None
    /\ uploaded_file = None /\ file_extension = Null /\ attempts = <<>> /\ result = None

\* balance_sheet.analyze_balance_sheet(rearranged_df)
AnalyzeBalanceSheet ==
    /\ pc = "table"
    /\ LET r == analyze_balance_sheet(df)
       IN  found_metrics' = r.found /\ analysis_df' = r.frame
    /\ pc' = "bs_analysis"
    /\ UNCHANGED <<df, normVars, fileVars>>

\* profit_loss.analyze_profit_loss(rearranged_df)
AnalyzeProfitLoss ==
    /\ pc = "table"
    /\ LET r == analyze_profit_loss(df)
       IN  found_metrics' = r.found /\ analysis_df' = r.frame
    /\ pc' = "pl_analysis"
    /\ UNCHANGED <<df, normVars, fileVars>>

\* cash_flow.analyze_cash_flow(rearranged_df)
AnalyzeCashFlow ==
    /\ pc = "table"
    /\ LET r == analyze_cash_flow(df)
       IN  found_metrics' = r.found /\ analysis_df' = r.frame
    /\ pc' = "cf_analysis"
    /\ UNCHANGED <<df, normVars, fileVars>>

AnaNext == AnalyzeBalanceSheet \/ AnalyzeProfitLoss \/ AnalyzeCashFlow

SpecAnalyze == AnaInit /\ [][AnaNext]_vars

Analyzed == pc \in {"bs_analysis", "pl_analysis", "cf_analysis"}

MinOf(S) == CHOOSE x \in S : \A y \in S : x <= y

\* the columns (positions) whose lowercased label contains a candidate of entry m
CandidateColumns(metric_patterns, columns, m) ==
    {c \in 1..Len(columns) :
        \E p \in 1..Len(metric_patterns[m][2]) : Contains(metric_patterns[m][2][p], py_lower(columns[c]))}

LeftmostBound(metric_patterns, columns, found) ==
    \A m \in 1..Len(metric_patterns) :
        LET hits == CandidateColumns(metric_patterns, columns, m)
            key == metric_patterns[m][1]
        IN  IF hits = {} THEN ~DictHas(found, key)
            ELSE DictHas(found, key) /\ DictGet(found, key) = columns[MinOf(hits)]

\* C7: in the Balance Sheet and Profit and Loss analysers every metric key is
\* bound to the leftmost column whose lowercased label contains one of the
\* key's candidates, a key without such a column is absent and the analysis
\* still returns a table; "Total Current Assets (Rs. Cr)" is bound to
\* current_assets when no column to its left holds a current_assets candidate.
C7_LeftmostColumnWins ==
    /\ pc = "bs_analysis" =>
          /\ LeftmostBound(bs_metric_patterns, df.columns, found_metrics)
          /\ analysis_df # None
          /\ \A c \in 1..Len(df.columns) :
                (/\ df.columns[c] = "Total Current Assets (Rs. Cr)"
                 /\ \A b \in 1..(c - 1) : ~Contains("current asset", py_lower(df.columns[b]))
                                          /\ ~Contains("total ca", py_lower(df.columns[b])))
                    => DictGet(found_metrics, "current_assets") = "Total Current Assets (Rs. Cr)"
    /\ pc = "pl_analysis" =>
          /\ LeftmostBound(pl_metric_patterns, df.columns, found_metrics)
          /\ analysis_df # None

C7_Witness ==
    /\ pc = "bs_analysis"
    /\ df.columns = <<"Cash", "Total Current Assets (Rs. Cr)">>
    /\ DictGet(found_metrics, "current_assets") = "Total Current Assets (Rs. Cr)"
    /\ ~DictHas(found_metrics, "debt")
    /\ analysis_df.columns = <<"Total Current Assets (Rs. Cr) YoY Growth (%)">>

\* (value[i] - value[i-1]) / value[i-1] * 100, NaN at the first period
ExpectedGrowth(series) ==
    [i \in 1..Len(series) |->
        IF i = 1 THEN NaN
        ELSE FMul(FDiv(FSub(Float(series[i]), Float(series[i - 1])), Float(series[i - 1])), Float(100))]

AnalysisColumn(name) == analysis_df.data[CHOOSE i \in 1..Len(analysis_df.columns) : analysis_df.columns[i] = name]

HasAnalysis(name) == \E i \in 1..Len(analysis_df.columns) : analysis_df.columns[i] = name

\* C8: every growth series has NaN at the first period and, at period i > 0,
\* (value[i] - value[i-1]) / value[i-1] * 100 over consecutive periods in table
\* order (division as in IEEE 754); for [100, 150] the second value is 50.
C8_GrowthFormula ==
    Analyzed =>
        \A c \in 1..Len(df.columns) :
            HasAnalysis(YoY(df.columns[c])) =>
                /\ AnalysisColumn(YoY(df.columns[c])) = ExpectedGrowth(df.data[c])
                /\ AnalysisColumn(YoY(df.columns[c]))[1] = NaN
                /\ df.data[c] = <<100, 150>> => AnalysisColumn(YoY(df.columns[c]))[2] = Float(50)

C8_Witness ==
    /\ pc = "cf_analysis"
    /\ df.columns[1] = "Net Cash from Operating Activities"
    /\ df.data[1] = <<100, 150>>
    /\ AnalysisColumn("Net Cash from Operating Activities YoY Growth (%)") = <<NaN, Float(50)>>

\* the growth series named growth is NaN at every period that follows a
\* zero of the series, and is nowhere infinite
NaNAfterZero(growth, series) ==
    \A i \in 2..Len(series) :
        /\ series[i - 1] = 0 => AnalysisColumn(growth)[i] = NaN
        /\ ~IsInf(AnalysisColumn(growth)[i])

\* C19: in every growth series of the analysis table a period whose
\* preceding period value is zero has growth NaN, and no growth value is
\* +infinity or -infinity
C19_GrowthNaNAfterZero ==
    Analyzed =>
        \A c \in 1..Len(df.columns) :
            HasAnalysis(YoY(df.columns[c])) => NaNAfterZero(YoY(df.columns[c]), df.data[c])

\* the names of the series the Profit and Loss analysis table holds
AnalysisSeries == {analysis_df.columns[i] : i \in 1..Len(analysis_df.columns)}

\* a YoY growth series for each of the entries resolved
GrowthSeriesOf(entries) ==
    {YoY(DictGet(found_metrics, m)) : m \in {e \in entries : DictHas(found_metrics, e)}}

\* the margin named ratio, when both entries are resolved
MarginSeries(ratio, numerator, denominator) ==
    IF DictHas(found_metrics, numerator) /\ DictHas(found_metrics, denominator)
    THEN {ratio} ELSE {}

\* C23: the Profit and Loss analysis table holds exactly a YoY growth series
\* for each of net_sales, operating_profit and net_profit that was resolved,
\* the operating margin when operating_profit and net_sales are resolved and
\* the net margin when net_profit and net_sales are resolved; a resolved
\* gross_profit adds no series.
C23_ProfitLossSeries ==
    pc = "pl_analysis" =>
        AnalysisSeries = GrowthSeriesOf({"net_sales", "operating_profit", "net_profit"})
                            \cup MarginSeries("Operating Profit Margin (%)", "operating_profit", "net_sales")
                            \cup MarginSeries("Net Profit Margin (%)", "net_profit", "net_sales")

\* the same statement with the growth series of a resolved gross_profit
\* counted among the series of the table
C23_ProfitLossSeriesWithGross ==
    pc = "pl_analysis" =>
        AnalysisSeries = GrowthSeriesOf({"net_sales", "operating_profit", "net_profit", "gross_profit"})
                            \cup MarginSeries("Operating Profit Margin (%)", "operating_profit", "net_sales")
                            \cup MarginSeries("Net Profit Margin (%)", "net_profit", "net_sales")

\* the ratio named ratio is NaN wherever the column divisor holds zero, and
\* is nowhere infinite
NaNOnZeroDivisor(ratio, divisor) ==
    HasAnalysis(ratio) =>
        \A i \in 1..Len(df.index) :
            /\ Column(df, divisor)[i] = 0 => AnalysisColumn(ratio)[i] = NaN
            /\ ~IsInf(AnalysisColumn(ratio)[i])

\* C10: in every cross-metric ratio (current ratio, debt-to-equity, operating
\* margin, net margin, operating-to-investing ratio) a period with a zero
\* divisor has the value NaN, never an infinity, whatever the numerator, and
\* the analysis still returns a table.
C10_ZeroDivisorGivesNaN ==
    /\ Analyzed => analysis_df # None
    /\ pc = "bs_analysis" =>
          /\ HasAnalysis("Current Ratio") =>
                NaNOnZeroDivisor("Current Ratio", DictGet(found_metrics, "current_liabilities"))
          /\ HasAnalysis("Debt-to-Equity Ratio") =>
                NaNOnZeroDivisor("Debt-to-Equity Ratio", DictGet(found_metrics, "shareholders_funds"))
    /\ pc = "pl_analysis" =>
          /\ HasAnalysis("Operating Profit Margin (%)") =>
                NaNOnZeroDivisor("Operating Profit Margin (%)", DictGet(found_metrics, "net_sales"))
          /\ HasAnalysis("Net Profit Margin (%)") =>
                NaNOnZeroDivisor("Net Profit Margin (%)", DictGet(found_metrics, "net_sales"))
    /\ pc = "cf_analysis" =>
          NaNOnZeroDivisor("Op. CF to Inv. CF Ratio", "Net Cash Used in Investing Activities")

C10_Witness ==
    /\ pc = "pl_analysis"
    /\ df.columns = <<"Operating Profit", "Net Sales">>
    /\ df.data = << <<100, 0>>, <<0, 0>> >>
    /\ AnalysisColumn("Operating Profit Margin (%)") = <<NaN, NaN>>

(***************************************************************************)
(* Files the readers, the loaders and the upload flow are run on.  Sheets  *)
(* are three columns wide: rows above the data, then up to MaxBodyRows     *)
(* line items with distinct labels.                                        *)
(***************************************************************************)
MaxBodyRows == 2

MaxContentLen == 4

YearRow(a, b) == <<StrCell("Year"), a, b>>

TitleRow(text) == <<StrCell(text), NaNCell, NaNCell>>

Banner == [i \in 1..skiprows |-> TitleRow("Statement")]

SummaryRows == <<TitleRow("Cash Flow Summary"), TitleRow("Rs. Cr.")>>

\* the rows above the line items
TopRows ==
    { << YearRow(IntCell(201103), IntCell(201203)) >>,
      << YearRow(NaNCell, IntCell(201103)) >>,
      << YearRow(StrCell("2011"), StrCell("2011")) >>,
      << <<StrCell("Particulars"), StrCell("Mar 11"), StrCell("Mar 12")>> >>,
      << TitleRow("Statement"), YearRow(IntCell(2011), IntCell(2012)) >>,
      << YearRow(IntCell(201103), IntCell(201203)), TitleRow("Income :") >>,
      << >>,
      Banner \o << YearRow(NaNCell, StrCell("201103")) >> \o SummaryRows,
      Banner \o << YearRow(StrCell("201103"), NaNCell) >> \o SummaryRows,
      Banner \o << YearRow(StrCell("201103"), StrCell("201203")) >> \o SummaryRows,
      Banner \o << <<StrCell("Period"), NaNCell, StrCell("201103")>> >> \o SummaryRows,
      << <<StrCell("Particulars"), StrCell("Mar 11"), StrCell("Mar 12")>>,
         <<StrCell("Net Sales"), IntCell(7), IntCell(9)>> >>,
      << <<StrCell("Sales Year"), IntCell(2011), IntCell(2012)>>, TitleRow("Income :") >> }

BodyLabels == <<"Total Current Assets", "Total Current Liabilities", "Net Sales", "Equity">>

\* the two value cells of a line item
ValuePairs ==
    { <<IntCell(0), IntCell(0)>>, <<NaNCell, NaNCell>>, <<IntCell(7), IntCell(0)>>,
      <<IntCell(0), IntCell(7)>>, <<StrCell("-"), IntCell(0)>>, <<NaNCell, IntCell(14)>> }

RECURSIVE Bodies(_)
\* the line-item blocks of exactly n rows
Bodies(n) ==
    IF n = 0 THEN {<<>>}
    ELSE {Append(b, <<StrCell(BodyLabels[n])>> \o v) : b \in Bodies(n - 1), v \in ValuePairs}

Sheets == {top \o b : top \in TopRows, b \in UNION {Bodies(n) : n \in 0..MaxBodyRows}}

\* the grid of the end-to-end scenario, as text
ScenarioText ==
    << <<"Year", "201103", "201203">>,
       <<"Total Current Assets", "500", "600">>,
       <<"Total Current Liabilities", "250", "200">> >>

ScenarioSheet == [r \in 1..3 |-> [c \in 1..3 |-> StrCell(ScenarioText[r][c])]]

ScenarioContent ==
    "Year,201103,201203\nTotal Current Assets,500,600\nTotal Current Liabilities,250,200\n"

ContentChars == {"a", ",", ";", "|", "\n"}

RECURSIVE TextsOver(_, _)
\* the texts of at most n characters over an alphabet
TextsOver(alphabet, n) ==
    IF n = 0 THEN {""}
    ELSE LET shorter == TextsOver(alphabet, n - 1)
         IN  shorter \cup {t \o c : t \in shorter, c \in alphabet}

ExampleContents ==
    { ScenarioContent, "a;1\nb;2\n", "a;b\nc;d;e\n", "a,b;c\nd,e;f", "Year|2011\n\nSales|7",
      "x;1,5\ny;2,5", "1;2\n;3", "Year;2011;2012\nNet Sales;7;\n" }

\* texts for the .gp, .txt and .tsv branches
DelimitedContents ==
    { "Year\t201103\t201203\nNet Sales\t7\t9\n", "Year 2011 2012\nSales  7\t9 \n",
      "a,b;c;d\ne\tf\tg", "a;b\n\nc|d|e\n", "Year,2011\n \nSales,7", "a b\nc d e\n", "", "\n",
      "a\tb\n\n\n\n\nc,d,e\n" }

Workbooks == {Workbook("statement.xls", "xls", sheet) : sheet \in Sheets \cup {ScenarioSheet}}

\* a Cash Flow sheet: the banner, the period row, the summary rows, one line item
CashFlowSheet ==
    Banner \o << YearRow(NaNCell, StrCell("201103")) >> \o SummaryRows
        \o << <<StrCell("Net Cash from Operating Activities"), NaNCell, IntCell(7)>> >>

\* files declared with an extension outside the supported ones
OtherInputs ==
    { <<Workbook("statement.dat", "xls", ScenarioSheet), ".dat">>,
      <<Workbook("statement.dat", "xls", CashFlowSheet), ".dat">>,
      <<Workbook("statement.pdf", "xlsx", ScenarioSheet), ".pdf">>,
      <<TextFile("statement.dat", ScenarioContent), ".dat">>,
      <<TextFile("statement", ScenarioContent), "">> }

\* <<file, declared extension>> for the readers and the loaders
ReaderInputs ==
    {<<TextFile("statement.csv", c), ".csv">> :
        c \in TextsOver(ContentChars, MaxContentLen) \cup ExampleContents}
    \cup {<<TextFile("statement.csv", c), e>> : c \in ExampleContents, e \in {".xls", ".xlsx", ".dat"}}
    \cup {<<Workbook("statement.xls", f, ScenarioSheet), e>> :
             f \in {"xls", "xlsx"}, e \in {".xls", ".xlsx", ".csv", ".dat"}}
    \cup {<<Workbook("statement.xls", "xls", <<>>), ".xls">>}
    \cup {<<TextFile("statement" \o e, c), e>> :
             c \in DelimitedContents \cup ExampleContents, e \in {".gp", ".txt", ".tsv"}}
    \cup {<<Workbook("statement" \o e, "xls", ScenarioSheet), e>> : e \in {".gp", ".txt", ".tsv"}}
    \cup OtherInputs

LoaderInputs ==
    {<<w, ".xls">> : w \in Workbooks}
    \cup {<<TextFile("statement.csv", c), ".csv">> : c \in ExampleContents}
    \cup {<<TextFile("statement" \o e, c), e>> : c \in DelimitedContents, e \in {".gp", ".txt", ".tsv"}}
    \cup {<<Workbook("statement.xlsx", "xlsx", ScenarioSheet), ".xlsx">>}
    \cup OtherInputs

\* the files a user uploads
Uploads ==
    Workbooks
    \cup {TextFile("statement.csv", c) : c \in ExampleContents \cup {"", "\n", "no table here"}}
    \cup { Workbook("Statement.XLSX", "xlsx", ScenarioSheet),
           Workbook("statement.csv", "xls", ScenarioSheet),
           TextFile("statement.xls", ScenarioContent),
           TextFile("statement.pdf", ScenarioContent),
           TextFile("statement", ScenarioContent),
           Workbook("statement.xls", "xls", <<>>),
           TextFile("statement.txt", "a b\nc d e\n"),
           TextFile("statement.txt", "Year 2011 2012\nSales  7\t9 \n"),
           TextFile("statement.gp", "a;b\n\nc|d|e\n"),
           TextFile("statement.tsv", "Year\t201103\t201203\nNet Sales\t7\t9\n") }

FileInit ==
    /\ padYear = FALSE /\ token = Null /\ label = None
    /\ df = None /\ found_metrics = <<>> /\ analysis_df = None
    /\ attempts = <<>>
    /\ result = None

(***************************************************************************)
(* Reader runs: one file is decoded by one of the readers                  *)
(***************************************************************************)
DecodeInit ==
    /\ pc = "file"
    /\ \E input \in ReaderInputs : uploaded_file = input[1] /\ file_extension = input[2]
    /\ FileInit

\* balance_sheet.smart_file_reader(file, file_extension)
DecodeBalanceSheet ==
    /\ pc = "file"
    /\ \E run \in {smart_file_reader(uploaded_file, file_extension)} :
          result' = run.ret /\ uploaded_file' = run.file /\ attempts' = run.attempts
    /\ pc' = "bs_decoded"
    /\ UNCHANGED <<normVars, anaVars, file_extension>>

\* profit_loss.smart_file_reader(file, file_extension)
DecodeProfitLoss ==
    /\ pc = "file"
    /\ \E run \in {pl_smart_file_reader(uploaded_file, file_extension)} :
          result' = run.ret /\ uploaded_file' = run.file /\ attempts' = run.attempts
    /\ pc' = "pl_decoded"
    /\ UNCHANGED <<normVars, anaVars, file_extension>>

DecodeNext == DecodeBalanceSheet \/ DecodeProfitLoss

SpecDecode == DecodeInit /\ [][DecodeNext]_vars

Decoded == pc \in {"bs_decoded", "pl_decoded"}

\* the parse of the whole content under one delimiter has several columns
Accepts(delimiter) ==
    LET r == parse_csv(uploaded_file.content, delimiter) IN r.ok /\ NCols(r.val) > 1

ParsedWith(delimiter) == Frame(parse_csv(uploaded_file.content, delimiter).val)

DecodedCsv == Decoded /\ file_extension = ".csv" /\ IsText(uploaded_file)

\* C6: decoding a .csv file returns the grid parsed with the first of ',',
\* ';', '|' whose parse has more than one column, and a decode failure when
\* none has; content without ',' whose ';' parse has several columns is
\* rejected under ',' (one column) and returned as parsed with ';'
C6_CsvDelimiterOrder ==
    DecodedCsv =>
        /\ Accepts(",") => result = ParsedWith(",")
        /\ (~Accepts(",") /\ Accepts(";")) => result = ParsedWith(";")
        /\ (~Accepts(",") /\ ~Accepts(";") /\ Accepts("|")) => result = ParsedWith("|")
        /\ (~Accepts(",") /\ ~Accepts(";") /\ ~Accepts("|")) =>
              result = NoFrame("Failed to parse CSV file")
        /\ (~Contains(",", uploaded_file.content) /\ Accepts(";")) =>
              /\ parse_csv(uploaded_file.content, ",").ok
              /\ NCols(parse_csv(uploaded_file.content, ",").val) = 1
              /\ result = ParsedWith(";")

C6_Witness ==
    /\ DecodedCsv
    /\ ~Contains(",", uploaded_file.content)
    /\ Contains(";", uploaded_file.content)
    /\ result.ok
    /\ NCols(result.df) = 2
    /\ NRows(result.df) = 2

DecodedGp == Decoded /\ file_extension = ".gp" /\ IsText(uploaded_file)

NotBlank(line) == py_strip(line) # ""

\* the first count lines of the content that are not blank
FirstNonEmptyLines(content, count) ==
    SubSeq(SelectSeq(py_split(content, "\n"), NotBlank), 1,
           Min(count, Len(SelectSeq(py_split(content, "\n"), NotBlank))))

\* the largest column count a delimiter gives on the lines (0 without lines)
ColumnsUnder(lines, delimiter) ==
    IF lines = <<>> THEN 0
    ELSE CHOOSE n \in {Len(py_split(lines[l], delimiter)) : l \in 1..Len(lines)} :
            \A l \in 1..Len(lines) : Len(py_split(lines[l], delimiter)) <= n

\* the delimiter with the largest column count on the lines, the earlier one
\* of tab, comma, semicolon, pipe on a tie
WidestDelimiter(lines) ==
    gp_delimiters[CHOOSE d \in 1..Len(gp_delimiters) :
        /\ \A e \in 1..Len(gp_delimiters) :
              ColumnsUnder(lines, gp_delimiters[e]) <= ColumnsUnder(lines, gp_delimiters[d])
        /\ \A e \in 1..(d - 1) :
              ColumnsUnder(lines, gp_delimiters[e]) < ColumnsUnder(lines, gp_delimiters[d])]

\* the last parse of the run used the delimiter and its grid is the result
GpParsedWith(delimiter) ==
    /\ attempts # <<>>
    /\ attempts[Len(attempts)] = Attempt("read_csv", delimiter, 0)
    /\ result = read_text(uploaded_file.content, delimiter)

\* C22: a .gp file is parsed as a whole with the delimiter among tab, comma,
\* semicolon, pipe that gives the largest column count on any of the first 5
\* non-empty lines of the content (empty lines do not count toward the 5),
\* the earlier delimiter on a tie, and tab when no delimiter occurs.
C22_GpDelimiterFromNonEmptyLines ==
    DecodedGp => GpParsedWith(WidestDelimiter(FirstNonEmptyLines(uploaded_file.content, 5)))

\* the same statement over the first 5 lines of the content, empty lines
\* included in the 5 (and skipped in the count of columns)
C22_GpDelimiterFromFirstLines ==
    DecodedGp =>
        GpParsedWith(WidestDelimiter(SelectSeq(FirstLines(uploaded_file.content, 5), NotBlank)))

(***************************************************************************)
(* Loader runs: one file is loaded by one of the loaders                   *)
(***************************************************************************)
LoadInit ==
    /\ pc = "file"
    /\ \E input \in LoaderInputs : uploaded_file = input[1] /\ file_extension = input[2]
    /\ FileInit

\* balance_sheet.load_balance_sheet_file(file, file_extension)
LoadBalanceSheet ==
    /\ pc = "file"
    /\ \E run \in {load_balance_sheet_file(uploaded_file, file_extension, padYear)} :
          result' = run.ret /\ uploaded_file' = run.file /\ attempts' = run.attempts
    /\ pc' = "bs_loaded"
    /\ UNCHANGED <<normVars, anaVars, file_extension>>

\* profit_loss.load_profit_loss_file(file, file_extension)
LoadProfitLoss ==
    /\ pc = "file"
    /\ \E run \in {load_profit_loss_file(uploaded_file, file_extension, padYear)} :
          result' = run.ret /\ uploaded_file' = run.file /\ attempts' = run.attempts
    /\ pc' = "pl_loaded"
    /\ UNCHANGED <<normVars, anaVars, file_extension>>

\* cash_flow.load_cash_flow_file(file)
LoadCashFlow ==
    /\ pc = "file"
    /\ \E run \in {load_cash_flow_file(uploaded_file, padYear)} :
          result' = run.ret /\ uploaded_file' = run.file /\ attempts' = run.attempts
    /\ pc' = "cf_loaded"
    /\ UNCHANGED <<normVars, anaVars, file_extension>>

LoadNext == LoadBalanceSheet \/ LoadProfitLoss \/ LoadCashFlow

SpecLoad == LoadInit /\ [][LoadNext]_vars

Loaded == pc \in {"bs_loaded", "pl_loaded", "cf_loaded"}

\* the grid the loader at pc worked on
SourceFrame ==
    CASE pc = "bs_loaded" -> smart_file_reader(uploaded_file, file_extension).ret.df
      [] pc = "pl_loaded" -> pl_smart_file_reader(uploaded_file, file_extension).ret.df
      [] pc = "cf_loaded" -> read_excel(uploaded_file, "xlrd", skiprows).val

\* the period row and the first data row of that loader
SourceLayout ==
    CASE pc = "bs_loaded" -> bs_layout(SourceFrame)
      [] pc = "pl_loaded" -> pl_layout(SourceFrame)
      [] pc = "cf_loaded" -> cf_layout(SourceFrame)

\* the grid columns that carry a period in the period row
PeriodPositions == NotNaPositions(SourceFrame[SourceLayout.year_row_idx + 1])

\* the data rows (0-based) with a nonzero number in some period column
NonZeroSourceRows ==
    {r \in SourceLayout.data_start_idx..(NRows(SourceFrame) - 1) :
        \E j \in PeriodPositions : coerce(SourceFrame[r + 1][j + 1]) # 0}

NoAllZeroRow == \A i \in 1..Len(result.values) : ~AllZero(result.values[i])

\* the label a data row carries in the loaded table (the Balance Sheet
\* loader fills a missing label with 0)
SourceLabel(r) ==
    IF pc = "bs_loaded" /\ ~notna(SourceFrame[r + 1][1]) THEN IntCell(0)
    ELSE SourceFrame[r + 1][1]

NonZeroRowsRetained ==
    \A r \in NonZeroSourceRows :
        \E i \in 1..Len(result.items) : result.items[i] = SourceLabel(r)

\* C5: in the table a loader returns no row is all-zero across the period
\* columns, and every data row with a nonzero period value is present
C5_NoAllZeroRows == (Loaded /\ result # None) => (NoAllZeroRow /\ NonZeroRowsRetained)

\* the loader ran on a file declared with an extension outside the supported ones
UnsupportedLoad == Loaded /\ file_extension \notin SupportedExtensions

\* C11: for every statement type, a file declared with an extension outside
\* .xls, .xlsx, .csv, .gp, .txt, .tsv gives no table, and no read of its
\* content is attempted
C11_UnsupportedExtensionFails == UnsupportedLoad => (result = None /\ attempts = <<>>)

\* the Balance Sheet and the Profit and Loss loader do so
C11_DecoderLoadersRefuse ==
    (UnsupportedLoad /\ pc \in {"bs_loaded", "pl_loaded"}) => (result = None /\ attempts = <<>>)

\* C12: a loader never returns a table with zero rows: when no row is left
\* after the empty rows and the all-zero rows are dropped it returns no table
C12_NoEmptyTable == (Loaded /\ result # None) => Len(result.items) > 0

\* the reader of the loader at pc returned a grid
SourceDecoded ==
    CASE pc = "bs_loaded" -> smart_file_reader(uploaded_file, file_extension).ret.ok
      [] pc = "pl_loaded" -> pl_smart_file_reader(uploaded_file, file_extension).ret.ok
      [] pc = "cf_loaded" -> read_excel(uploaded_file, "xlrd", skiprows).ok

\* the loader got a grid with cells in it
SourceReadable == Loaded /\ SourceDecoded /\ ~GridEmpty(SourceFrame)

\* what the locator of that loader reports, -1 for none
SourceFound ==
    CASE pc = "bs_loaded" -> bs_find_data_structure(SourceFrame)
      [] pc = "pl_loaded" -> pl_find_data_structure(SourceFrame)
      [] pc = "cf_loaded" -> cf_layout(SourceFrame)

\* the loader at pc, run from the located rows on with a given layout
LoadAt(layout) ==
    CASE pc = "bs_loaded" -> bs_load_frame(SourceFrame, layout, padYear)
      [] pc = "pl_loaded" -> pl_load_frame(SourceFrame, layout, padYear)
      [] pc = "cf_loaded" -> cf_load_frame(SourceFrame, layout, padYear)

\* period row 0 when none is located, and the row after the period row as
\* the data start when either is not located
HeuristicDefault(found) ==
    [year_row_idx |-> IF found.year_row_idx = 0 - 1 THEN 0 ELSE found.year_row_idx,
     data_start_idx |->
        IF found.year_row_idx = 0 - 1 THEN 1
        ELSE IF found.data_start_idx = 0 - 1 THEN found.year_row_idx + 1
        ELSE found.data_start_idx]

StructureNotFound ==
    SourceReadable /\ (SourceFound.year_row_idx = 0 - 1 \/ SourceFound.data_start_idx = 0 - 1)

\* C13: for every statement type, a period row or a data start that is not
\* located is not fatal by itself: the loader returns no table only when
\* continuing with the heuristic default (period row 0, data start 1) gives
\* none either
C13_StructureNotFoundContinues ==
    (StructureNotFound /\ result = None) => LoadAt(HeuristicDefault(SourceFound)) = None

\* the Balance Sheet loader continues with period row 0 and data start 1
C13_BalanceSheetContinues ==
    (StructureNotFound /\ pc = "bs_loaded") => result = LoadAt(HeuristicDefault(SourceFound))

\* the rows (0-based) of the grid whose text matches a period pattern
PeriodRows ==
    {r \in 0..(NRows(SourceFrame) - 1) : any_pattern(year_patterns, row_str(SourceFrame[r + 1]))}

TopmostPeriodRow ==
    IF SourceFound.year_row_idx = 0 - 1 THEN PeriodRows = {}
    ELSE /\ SourceFound.year_row_idx \in PeriodRows
         /\ \A r \in PeriodRows : SourceFound.year_row_idx <= r

\* C14: for every statement type, the period row the locator reports is the
\* topmost row whose lowercased text matches a period pattern, and it
\* reports none only when no row of the grid matches
C14_TopmostPeriodRow == SourceReadable => TopmostPeriodRow

\* the locators of the Balance Sheet and the Profit and Loss loader do so
C14_DecoderLocators == (SourceReadable /\ pc \in {"bs_loaded", "pl_loaded"}) => TopmostPeriodRow

\* the locator of the Balance Sheet or the Profit and Loss loader left the
\* data start undetermined
DataStartUndetermined ==
    SourceReadable /\ pc \in {"bs_loaded", "pl_loaded"} /\ SourceFound.data_start_idx = 0 - 1

\* the period row the loader settled on, with the row after it as the data start
AfterPeriodRow ==
    [year_row_idx |-> SourceLayout.year_row_idx, data_start_idx |-> SourceLayout.year_row_idx + 1]

\* C15: when the locator leaves the data start undetermined, the Balance
\* Sheet and the Profit and Loss loader slice the table from the row right
\* after the period row (row 1 when the period row was defaulted to row 0)
C15_DefaultDataStart == DataStartUndetermined => result = LoadAt(AfterPeriodRow)

\* the Balance Sheet loader does so
C15_BalanceSheetDefault ==
    (DataStartUndetermined /\ pc = "bs_loaded") =>
        (SourceLayout = AfterPeriodRow /\ result = LoadAt(AfterPeriodRow))

\* the Profit and Loss loader got a grid in which a period row is located
PeriodRowLocated ==
    SourceReadable /\ pc = "pl_loaded" /\ SourceFound.year_row_idx # 0 - 1

\* the rows (0-based) after row p whose text matches a P&L keyword
KeywordRowsAfter(p) ==
    {k \in (p + 1)..(NRows(SourceFrame) - 1) :
        any_pattern(profit_loss_patterns, row_str(SourceFrame[k + 1]))}

\* the table is sliced k + 1 rows down, k being the first keyword row after
\* the period row p; with no such row the data start is undetermined
DataStartAfterKeyword(p) ==
    IF KeywordRowsAfter(p) = {} THEN SourceFound.data_start_idx = 0 - 1
    ELSE \E k \in KeywordRowsAfter(p) :
            /\ \A q \in KeywordRowsAfter(p) : k <= q
            /\ SourceFound.data_start_idx = k + 1
            /\ SourceFound.data_start_idx > p
            /\ result = LoadAt([year_row_idx |-> p, data_start_idx |-> k + 1])

KeywordRowOnly ==
    /\ SourceReadable
    /\ pc = "bs_loaded"
    /\ SourceFound.year_row_idx = 0 - 1
    /\ SourceFound.data_start_idx # 0 - 1

\* C17: for a Balance Sheet grid with no period row but a keyword row, the
\* table is sliced from the first keyword row on
C17_SlicedAtKeywordRow ==
    KeywordRowOnly =>
        result = LoadAt([year_row_idx |-> SourceLayout.year_row_idx,
                         data_start_idx |-> SourceFound.data_start_idx])

\* when a period row p is found the Balance Sheet table is sliced from row p + 1 on
C17_SlicedAfterPeriodRow ==
    (SourceReadable /\ pc = "bs_loaded" /\ SourceFound.year_row_idx # 0 - 1) =>
        /\ SourceLayout.data_start_idx = SourceFound.year_row_idx + 1
        /\ result = LoadAt([year_row_idx |-> SourceFound.year_row_idx,
                            data_start_idx |-> SourceFound.year_row_idx + 1])

\* the grid columns (0-based) that carry a period, left to right
PeriodColumns == SeqOfSet(PeriodPositions)

\* row i of the table holds, under its c-th period, the value of source row
\* r in the grid column of the c-th period
RowAligned(i, r) ==
    /\ SourceLabel(r) = result.items[i]
    /\ \A c \in 1..Len(result.periods) :
          result.values[i][c] = coerce(SourceFrame[r + 1][PeriodColumns[c] + 1])

LabelsAligned ==
    /\ Len(result.periods) = Len(PeriodColumns)
    /\ \A i \in 1..Len(result.items) :
          \E r \in SourceLayout.data_start_idx..(NRows(SourceFrame) - 1) : RowAligned(i, r)

\* C18: in every table a loader returns there is one period column per
\* period cell of the period row, left to right, and the value of a line
\* item under the period of grid column j is the coerced cell of that line
\* item in grid column j, also when the period row has empty cells
C18_LabelsAligned == (Loaded /\ result # None) => LabelsAligned

\* the Balance Sheet loader keeps labels and values aligned
C18_BalanceSheetAligned == (Loaded /\ pc = "bs_loaded" /\ result # None) => LabelsAligned

(***************************************************************************)
(* Upload runs: one file goes through the upload flow for one statement    *)
(***************************************************************************)
ProcessInit ==
    /\ pc = "upload"
    /\ uploaded_file \in Uploads
    /\ file_extension = Null
    /\ FileInit

Returned(value) == [stage |-> "returned", value |-> value]

Raised(exc) == [stage |-> "raised", exc |-> exc]

Stopped(stage) == [stage |-> stage]

\* the call returned a value, or raised into the except of the flow
Outcome(r, validation) ==
    IF r.ok THEN Run(Returned(r.val.ret), r.val.file, validation.attempts \o r.val.attempts)
    ELSE Run(Raised(r.exc), seek(validation.file, 0), validation.attempts)

\* main, once the content is validated: rewind and call
Validated(validation, detected, analysis_type, pad) ==
    IF ~validation.ret THEN Run(Stopped("invalid"), validation.file, validation.attempts)
    ELSE Outcome(Call(DictGet(process_functions, analysis_type),
                      <<seek(validation.file, 0), detected>>, pad),
                 validation)

\* main, once the format is detected
UploadAs(file, detected, analysis_type, pad) ==
    IF detected = Null THEN Run(Stopped("unsupported"), file, <<>>)
    ELSE Validated(validate_file_content(file, detected), detected, analysis_type, pad)

\* main: detect the format, validate the content, rewind, call the
\* processing function of the chosen statement with (file, extension)
Upload(analysis_type, done) ==
    /\ pc = "upload"
    /\ file_extension' = detect_file_format(uploaded_file)
    /\ \E run \in {UploadAs(uploaded_file, detect_file_format(uploaded_file), analysis_type, padYear)} :
          result' = run.ret /\ uploaded_file' = run.file /\ attempts' = run.attempts
    /\ pc' = done
    /\ UNCHANGED <<normVars, anaVars>>

ProcessBalanceSheet == Upload("Balance Sheet", "bs_processed")

ProcessProfitLoss == Upload("Profit and Loss", "pl_processed")

ProcessCashFlow == Upload("Cash Flow", "cf_processed")

ProcessNext == ProcessBalanceSheet \/ ProcessProfitLoss \/ ProcessCashFlow

SpecProcess == ProcessInit /\ [][ProcessNext]_vars

\* the upload flow reached the call of the processing function
Called == pc \in {"bs_processed", "pl_processed", "cf_processed"} /\ result.stage \in {"returned", "raised"}

\* C4: called by the upload flow with (file, extension), the processing
\* function of every statement type returns and never raises
C4_ProcessNeverRaises == Called => result.stage = "returned"

\* the text of a grid's cells
GridText(frame) == [r \in 1..NRows(frame) |-> [c \in 1..Len(frame[r]) |-> py_str(frame[r][c])]]

\* the Balance Sheet pipeline ran on the grid of the end-to-end scenario
ScenarioRun ==
    /\ pc = "bs_processed"
    /\ result.stage = "returned"
    /\ smart_file_reader(uploaded_file, file_extension).ret.ok
    /\ GridText(smart_file_reader(uploaded_file, file_extension).ret.df) = ScenarioText

ResultColumn(frame, name) == frame.data[CHOOSE i \in 1..Len(frame.columns) : frame.columns[i] = name]

\* C9: on the scenario grid the Balance Sheet pipeline yields a transposed
\* table with the periods Mar-2011, Mar-2012 in that order and an analysis
\* table whose current ratio series is [2.0, 3.0]
C9_ScenarioCurrentRatio ==
    ScenarioRun =>
        /\ result.value.rearranged # None
        /\ result.value.rearranged.index = <<"Mar-2011", "Mar-2012">>
        /\ result.value.analysis # None
        /\ \E i \in 1..Len(result.value.analysis.columns) :
              result.value.analysis.columns[i] = "Current Ratio"
        /\ ResultColumn(result.value.analysis, "Current Ratio") = <<Rat(2, 1), Rat(3, 1)>>

C9_Witness ==
    /\ ScenarioRun
    /\ uploaded_file.format = "text"
    /\ result.value.rearranged # None

Processed == pc \in {"bs_processed", "pl_processed", "cf_processed"}

\* the reads of the validation of the uploaded file
ValidationReads == validate_file_content(uploaded_file, file_extension).attempts

\* the first read the processing function made found the file at position 0
ReadFromStart ==
    Len(attempts) > Len(ValidationReads) => attempts[Len(ValidationReads) + 1].position = 0

\* a text upload whose first 10 lines hold neither a comma nor a tab
NoCommaNoTab ==
    /\ file_extension \in {".csv", ".gp", ".txt", ".tsv"}
    /\ IsText(uploaded_file)
    /\ \A l \in 1..Len(FirstLines(uploaded_file.content, 10)) :
          /\ ~Contains(",", FirstLines(uploaded_file.content, 10)[l])
          /\ ~Contains("\t", FirstLines(uploaded_file.content, 10)[l])

\* the flow stopped at the validation, its read being the only one made
RejectedByValidation ==
    /\ result = Stopped("invalid")
    /\ attempts = <<Attempt("read", Null, 0)>>

\* C24: in the upload flow a processing function is called only after
\* detect_file_format returned a supported extension and
\* validate_file_content returned valid, with the file at position 0; a
\* .csv, .gp, .txt or .tsv upload whose first 10 lines hold neither a comma
\* nor a tab is rejected by the validation and never reaches the decoder.
C24_ValidatedBeforeProcessing ==
    Processed =>
        /\ Called => /\ file_extension \in SupportedExtensions
                     /\ validate_file_content(uploaded_file, file_extension).ret
                     /\ ReadFromStart
        /\ NoCommaNoTab => RejectedByValidation

C24_Witness ==
    /\ pc = "pl_processed"
    /\ file_extension = ".csv"
    /\ uploaded_file.content = "a;1\nb;2\n"
    /\ NoCommaNoTab
    /\ RejectedByValidation

====
